---------------------------- MODULE Spec2Model ----------------------------
(***************************************************************************)
(* bigiron: the mkdir-based LockFile (src/lockfile.rs) and the address     *)
(* allocator that keeps the reservation table under it (src/network.rs).   *)
(*                                                                         *)
(* Each command invocation (the API's create/delete of a machine, the     *)
(* dhcpbridge hook run by dnsmasq) is its own OS process: a process here   *)
(* is one invocation slot, which runs one allocator call at a time, step   *)
(* by step at the granularity of its filesystem accesses.                  *)
(*                                                                         *)
(* Representation of addresses.  The table's cidr is always the one        *)
(* NetState::new writes, a /24, so every address of the network is         *)
(* "172.20.0.n": the model keeps n.  The network is scaled down: its host  *)
(* addresses, net.hosts(), are 1..HostMax (254 in the program) and         *)
(* HostMax+1 is its broadcast address.  NotAnAddr stands for an `ip`       *)
(* string that Ipv4Addr's parser rejects (the hook passes dnsmasq's        *)
(* argument through as is); r.ip.parse().unwrap() panics on it.            *)
(***************************************************************************)
EXTENDS Integers, Sequences, FiniteSets, TLC

\* ---------------------------------------------------------------- bounds
NumProcs == 2
HostMax == 3
MacPoolSize == 2
MaxCalls == 4
MaxObjs == 2
MaxCmds == 2
MaxEvents == 2
BufLen == 12
MaxStarts == 2
MaxOps == 3
MaxSpins == 2

\* ------------------------------------------------------ program constants
GatewayOctet == 1
BroadcastOctet == 255

Procs == 1..NumProcs
Hostnames == {"h1", "h2"}
\* Option<String>: None, or Some(h)
NoneHost == "<None>"
HostOpts == {NoneHost} \cup Hostnames
MacPool == 1..MacPoolSize
NotAnAddr == 999
LeaseAddrs == (1..HostMax) \cup {NotAnAddr}

DefaultCidr == "172.20.0.0/24"

\* ------------------------------------------------------------ data model
NetInfo(mac, ip, hostname, allocated, leased) ==
    [mac |-> mac, ip |-> ip, hostname |-> hostname,
     allocated |-> allocated, leased |-> leased]

NoInfo == NetInfo(0, 0, "", FALSE, FALSE)

NetState_new == [cidr |-> DefaultCidr, reservations |-> <<>>]

\* (mutation) the broadcast address is taken for a host address
Hosts_and_broadcast(cidr) == 1..(HostMax + 1)

\* net.hosts() of the table's cidr, ascending
Hosts(cidr) == 1..HostMax

\* the sequence s without its i-th element (Vec::remove)
VecRemove(s, i) == [j \in 1..(Len(s) - 1) |-> IF j < i THEN s[j] ELSE s[j + 1]]

\* (mutation) the last record with this hostname is taken, not the first
FindHostname_last(res, hostname) ==
    IF \E i \in 1..Len(res) : res[i].hostname = hostname
    THEN CHOOSE i \in 1..Len(res) :
            /\ res[i].hostname = hostname
            /\ \A j \in (i + 1)..Len(res) : res[j].hostname # hostname
    ELSE 0

\* index of the first record with this hostname, 0 when there is none
\* (iter().find / the enumerate loop that breaks on the first match)
FindHostname(res, hostname) ==
    IF \E i \in 1..Len(res) : res[i].hostname = hostname
    THEN CHOOSE i \in 1..Len(res) :
            /\ res[i].hostname = hostname
            /\ \A j \in 1..(i - 1) : res[j].hostname # hostname
    ELSE 0

\* (mutation) the lookup by ip never finds the record
FindIp_never(res, addr) == 0

\* index of the first record whose ip string equals addr, 0 when none
FindIp(res, addr) ==
    IF \E i \in 1..Len(res) : res[i].ip = addr
    THEN CHOOSE i \in 1..Len(res) :
            /\ res[i].ip = addr
            /\ \A j \in 1..(i - 1) : res[j].ip # addr
    ELSE 0


\* --------------------------------------------------- new_reservation parts
\* (mutation) no address is skipped
Skipped_none(addr) == FALSE

\* addr.to_string().ends_with(".1") || addr.to_string().ends_with(".255"):
\* within 172.20.0.n the string ends with "." and the decimal digits of n
Skipped(addr) == addr = GatewayOctet \/ addr = BroadcastOctet

\* (mutation) `inuse` is overwritten by every record: only the last one counts
ScanInUse_last_record(res, addr, i) ==
    IF Len(res) > 0 /\ res[Len(res)].ip = addr THEN "inuse" ELSE "free"

\* the inner loop over the reservations for one candidate addr, from record i:
\* "inuse" on the first record whose parsed ip equals addr, "free" when the
\* records run out, "panic" when parse().unwrap() meets a string that is no
\* IPv4 address before either
RECURSIVE ScanInUse(_, _, _)
ScanInUse(res, addr, i) ==
    IF i > Len(res) THEN "free"
    ELSE IF res[i].ip = NotAnAddr THEN "panic"
    ELSE IF res[i].ip = addr THEN "inuse"
    ELSE ScanInUse(res, addr, i + 1)

\* (mutation) the loop keeps going after a free address: the last one wins
FindFree_last(res, hosts, a) ==
    LET free == {b \in hosts : ~Skipped(b) /\ ScanInUse(res, b, 1) = "free"} IN
    IF \E b \in hosts : ~Skipped(b) /\ ScanInUse(res, b, 1) = "panic"
    THEN [kind |-> "panic", addr |-> 0]
    ELSE IF free = {} THEN [kind |-> "none", addr |-> 0]
    ELSE [kind |-> "free", addr |-> CHOOSE b \in free : \A d \in free : d <= b]

\* the outer loop over net.hosts() from address a on: the first address that
\* is neither skipped nor in use
RECURSIVE FindFree(_, _, _)
FindFree(res, hosts, a) ==
    IF a \notin hosts THEN [kind |-> "none", addr |-> 0]
    ELSE IF Skipped(a) THEN FindFree(res, hosts, a + 1)
    ELSE LET s == ScanInUse(res, a, 1) IN
         IF s = "panic" THEN [kind |-> "panic", addr |-> 0]
         ELSE IF s = "free" THEN [kind |-> "free", addr |-> a]
         ELSE FindFree(res, hosts, a + 1)

\* (mutation) the generated mac is taken without the check
MacUnique_unchecked(res, mac) == TRUE

\* the check of a generated mac against every record
MacUnique(res, mac) == \A i \in 1..Len(res) : res[i].mac # mac

\* (mutation) the lookup never finds the record
ExistingFor_never(res, hostname) == 0

\* the lookup of an existing reservation for the hostname
ExistingFor(res, hostname) == FindHostname(res, hostname)

\* (mutation) an existing record is returned as it is found, not re-allocated
new_reservation_unflagged(ns, hostname, mac) ==
    LET res == ns.reservations
        i == ExistingFor(res, hostname)
        free == FindFree(res, Hosts(ns.cidr), 1)
    IN  IF i # 0
        THEN [ns |-> ns, saved |-> TRUE, outcome |-> "existing", info |-> res[i]]
        ELSE IF free.kind = "panic"
        THEN [ns |-> ns, saved |-> FALSE, outcome |-> "panic_parse", info |-> NoInfo]
        ELSE IF free.kind = "none"
        THEN [ns |-> ns, saved |-> FALSE, outcome |-> "panic_nofree", info |-> NoInfo]
        ELSE LET new_res == NetInfo(mac, free.addr, hostname, TRUE, FALSE) IN
             [ns |-> [ns EXCEPT !.reservations = Append(res, new_res)],
              saved |-> TRUE, outcome |-> "created", info |-> new_res]

\* The body of new_reservation between load and return, for the mac that
\* generate_mac's loop ends with: what is saved (if anything) and returned.
\* outcome: "existing" | "created" | "panic_nofree" | "panic_parse"
new_reservation(ns, hostname, mac) ==
    LET res == ns.reservations
        i == ExistingFor(res, hostname)
        free == FindFree(res, Hosts(ns.cidr), 1)
    IN  IF i # 0
        THEN LET r == [res[i] EXCEPT !.allocated = TRUE] IN
             [ns |-> [ns EXCEPT !.reservations = [res EXCEPT ![i] = r]],
              saved |-> TRUE, outcome |-> "existing", info |-> r]
        ELSE IF free.kind = "panic"
        THEN [ns |-> ns, saved |-> FALSE, outcome |-> "panic_parse", info |-> NoInfo]
        ELSE IF free.kind = "none"
        THEN [ns |-> ns, saved |-> FALSE, outcome |-> "panic_nofree", info |-> NoInfo]
        ELSE LET new_res == NetInfo(mac, free.addr, hostname, TRUE, FALSE) IN
             [ns |-> [ns EXCEPT !.reservations = Append(res, new_res)],
              saved |-> TRUE, outcome |-> "created", info |-> new_res]

\* whether the call gets as far as generating a mac
GeneratesMac(ns, hostname) ==
    /\ ExistingFor(ns.reservations, hostname) = 0
    /\ FindFree(ns.reservations, Hosts(ns.cidr), 1).kind = "free"

\* ------------------------------------------- remove_reservation, the leases
\* (mutation) the record is dropped as soon as it is not leased
Purged_unleased(r) == ~r.leased

\* (mutation) the record is dropped as soon as it is not allocated
Purged_unallocated(r) == ~r.allocated

\* `if !r.allocated && !r.leased`: the record is dropped from the table
Purged(r) == ~r.allocated /\ ~r.leased

\* (mutation) a hostname that is not found clears the table
remove_reservation_clearing(ns, hostname) ==
    [ns |-> [ns EXCEPT !.reservations = <<>>], saved |-> TRUE,
     outcome |-> "warn_none", info |-> NoInfo]

\* outcome: "removed" | "retained" | "warn_none"
remove_reservation(ns, hostname) ==
    LET res == ns.reservations
        i == FindHostname(res, hostname)
    IN  IF i = 0
        THEN [ns |-> ns, saved |-> FALSE, outcome |-> "warn_none", info |-> NoInfo]
        ELSE LET r == [res[i] EXCEPT !.allocated = FALSE] IN
             IF Purged(r)
             THEN [ns |-> [ns EXCEPT !.reservations = VecRemove(res, i)],
                   saved |-> TRUE, outcome |-> "removed", info |-> r]
             ELSE [ns |-> [ns EXCEPT !.reservations = [res EXCEPT ![i] = r]],
                   saved |-> TRUE, outcome |-> "retained", info |-> r]

\* Option<String> to the record's hostname: Some(name) => name, None => ""
HostOf(hostname) == IF hostname = NoneHost THEN "" ELSE hostname

\* the record add_lease pushes for an address no record carries
SynthesizedLease(mac, addr, hostname) ==
    NetInfo(mac, addr, HostOf(hostname), FALSE, TRUE)

\* (mutation) the record is corrected to the lease's mac and hostname
add_lease_correcting(ns, mac, addr, hostname) ==
    LET res == ns.reservations
        i == FindIp(res, addr)
    IN  IF i # 0
        THEN LET r == [res[i] EXCEPT !.leased = TRUE, !.mac = mac,
                                     !.hostname = HostOf(hostname)] IN
             [ns |-> [ns EXCEPT !.reservations = [res EXCEPT ![i] = r]],
              saved |-> TRUE, outcome |-> "leased", info |-> r]
        ELSE LET new_res == SynthesizedLease(mac, addr, hostname) IN
             [ns |-> [ns EXCEPT !.reservations = Append(res, new_res)],
              saved |-> TRUE, outcome |-> "synthesized", info |-> new_res]

\* outcome: "leased" | "synthesized"
add_lease(ns, mac, addr, hostname) ==
    LET res == ns.reservations
        i == FindIp(res, addr)
    IN  IF i # 0
        THEN LET r == [res[i] EXCEPT !.leased = TRUE] IN
             [ns |-> [ns EXCEPT !.reservations = [res EXCEPT ![i] = r]],
              saved |-> TRUE, outcome |-> "leased", info |-> r]
        ELSE LET new_res == SynthesizedLease(mac, addr, hostname) IN
             [ns |-> [ns EXCEPT !.reservations = Append(res, new_res)],
              saved |-> TRUE, outcome |-> "synthesized", info |-> new_res]

\* outcome: "removed" | "retained" | "absent"
del_lease(ns, addr) ==
    LET res == ns.reservations
        i == FindIp(res, addr)
    IN  IF i = 0
        THEN [ns |-> ns, saved |-> FALSE, outcome |-> "absent", info |-> NoInfo]
        ELSE LET r == [res[i] EXCEPT !.leased = FALSE] IN
             IF Purged(r)
             THEN [ns |-> [ns EXCEPT !.reservations = VecRemove(res, i)],
                   saved |-> TRUE, outcome |-> "removed", info |-> r]
             ELSE [ns |-> [ns EXCEPT !.reservations = [res EXCEPT ![i] = r]],
                   saved |-> TRUE, outcome |-> "retained", info |-> r]

\* a call: the operation and its arguments (unused arguments are defaults)
CallOf(op, hostname, mac, addr) ==
    [op |-> op, hostname |-> hostname, mac |-> mac, addr |-> addr]

NoCall == CallOf("none", "", 0, 0)

\* the body of call c run on table ns (mac: what generate_mac's loop gives)
Body(c, ns, mac) ==
    CASE c.op = "new_reservation" -> new_reservation(ns, c.hostname, mac)
      [] c.op = "remove_reservation" -> remove_reservation(ns, c.hostname)
      [] c.op = "add_lease" -> add_lease(ns, c.mac, c.addr, c.hostname)
      [] c.op = "del_lease" -> del_lease(ns, c.addr)

\* ------------------------------------------------------------------ state
VARIABLES
    lock_dir,          \* the lock directory /var/lib/bigiron/netstate.lock exists
    lock_pid,          \* content of the pid file inside it, 0: no pid file
    netstate_exists,   \* the table file /var/lib/bigiron/netstate exists
    netstate_file,     \* its content, a NetState
    pc,                \* per process: where its call stands
    call,              \* per process: its current (or last) call
    netstate,          \* per process: the local `netstate` it loaded
    ret,               \* per process: outcome of the call and NetInfo returned
    calls,             \* number of calls made so far
    serial_exists,     \* history: the same calls run one after another, each
    serial_file,       \*   whole, in the order they got the lock
    last_res,          \* history, per hostname: see LastResAfter
    conc,              \* history, per process: the processes whose call
                       \*   overlapped in time with its current (or last) call
    live,              \* history, per process: see LiveAfter
    trail              \* history: see TrailAfter

\* parse_qapi_stream on its own (the unit test's setting)
VARIABLES
    objs,              \* the JSON texts the buffer was made of, in order
    input,             \* the test's `input`: the buffer handed to the parser
    vals,              \* what parse_qapi_stream returned (see Parsed)
    parsed             \* the call has been made

\* one connection to a hypervisor's monitor socket (qemu::Monitor)
VARIABLES
    srv,               \* the server's end: "listening", "up", "silent", "closed"
    stream_in,         \* bytes the server wrote that the client has not read
    stream_out,        \* commands the client wrote that the server has not taken
    mon_pc,            \* where the client stands (see the actions)
    cmd,               \* the command whose reply the client is waiting for
    result,            \* what the last completed connect or command came to
    ncmds,             \* commands executed on the connection so far
    nevents,           \* events the server sent so far
    sent,              \* history: the messages the server sent, in order
    replied,           \* history: the server's replies, one per command taken
    written,           \* history: the commands the client wrote, in order
    nvals,             \* history: values the client parsed off the stream
    from0,             \* history: nvals when the current command was written
    cut,               \* history: a read has ended inside a message
    taken,             \* history: bytes read so far
    logged,            \* history: events surfaced since the command was written
    spins              \* history: turns of read_response's loop that read
                       \*   nothing, counted up to MaxSpins

\* one VM's runtime directory, the processes launched for it and one caller
VARIABLES
    vm_dir,            \* the runtime directory <root>/<id> exists
    spec_json,         \* spec.json exists in it
    monitor_sock,      \* monitor.sock exists in it
    pid_exists,        \* the file `pid` exists in it
    pid_text,          \* its content: <<>> when empty, <<p>> the digits of p
    qemu_log,          \* qemu.log exists in it
    child,             \* per launch: where the forked child of launch stands
    qemu,              \* per launch: where the hypervisor it spawned stands
    tap,               \* per launch: what the child's open of the tap device gave
    paused,            \* per launch: the hypervisor's guest is stopped
    listener,          \* the hypervisor bound to monitor.sock, 0: none
    nstarts,           \* launches so far; the k-th spawn gets pid k
    vm_pc,             \* where the caller stands (see the actions)
    vm_op,             \* the operation the caller is in
    vm_in,             \* "destroy" while undefine is inside destroy
    vm_ret,            \* what the last completed operation returned
    run_ret,           \* what the last running() returned
    pid_read,          \* the pid running() parsed off the pid file
    conn_to,           \* the hypervisor the caller's Monitor is connected to
    conns,             \* history: connections opened so far
    conn_sent,         \* history: commands written on the last connection
    nops               \* operations called so far

\* one call of models::to_size
VARIABLES
    size_s,            \* the argument `s`, a sequence of characters
    size_checks,       \* the build has overflow checks (debug) or none (release)
    size_ret,          \* what the call came to
    size_done          \* the call has been made

allocVars == <<lock_dir, lock_pid, netstate_exists, netstate_file, pc, call,
               netstate, ret, calls, serial_exists, serial_file, last_res,
               conc, live, trail>>

parseVars == <<objs, input, vals, parsed>>

qmpVars == <<srv, stream_in, stream_out, mon_pc, cmd, result, ncmds, nevents,
             sent, replied, written, nvals, from0, cut, taken, logged, spins>>

vmVars == <<vm_dir, spec_json, monitor_sock, pid_exists, pid_text, qemu_log,
            child, qemu, tap, paused, listener, nstarts, vm_pc, vm_op, vm_in, vm_ret, run_ret, pid_read,
            conn_to, conns, conn_sent, nops>>

sizeVars == <<size_s, size_checks, size_ret, size_done>>

vars == <<allocVars, parseVars, qmpVars, vmVars, sizeVars>>

\* what an allocator step leaves alone
nonAllocVars == <<parseVars, qmpVars, vmVars, sizeVars>>

\* what a step of the monitor connection leaves alone
nonQmpVars == <<allocVars, parseVars, vmVars, sizeVars>>

\* what a step of the VM layer leaves alone
nonVmVars == <<allocVars, parseVars, qmpVars, sizeVars>>

\* what a call of to_size leaves alone
nonSizeVars == <<allocVars, parseVars, qmpVars, vmVars>>

lockVars == <<lock_dir, lock_pid>>
fileVars == <<netstate_exists, netstate_file>>
serialVars == <<serial_exists, serial_file>>
histVars == <<last_res, conc, live, trail>>

NoRet == [outcome |-> "none", info |-> NoInfo]

\* no parse is set up
ParseOff ==
    /\ objs = <<>>
    /\ input = <<>>
    /\ vals = [panic |-> FALSE, vals |-> <<>>]
    /\ parsed = FALSE

NoResult == [kind |-> "none", val |-> "?", text |-> <<>>, src |-> 0]

\* no connection has been made
QmpOff ==
    /\ srv = "listening"
    /\ stream_in = <<>>
    /\ stream_out = <<>>
    /\ mon_pc = "start"
    /\ cmd = "none"
    /\ result = NoResult
    /\ ncmds = 0
    /\ nevents = 0
    /\ sent = <<>>
    /\ replied = <<>>
    /\ written = <<>>
    /\ nvals = 0
    /\ from0 = 0
    /\ cut = FALSE
    /\ taken = 0
    /\ logged = <<>>
    /\ spins = 0

NoSize == [kind |-> "none", val |-> <<>>]

\* no to_size call is set up
SizeOff ==
    /\ size_s = <<>>
    /\ size_checks = TRUE
    /\ size_ret = NoSize
    /\ size_done = FALSE

NoVmRet == [kind |-> "none", text |-> ""]

\* one VM with nothing launched and no operation called, its directory and
\* spec.json there or not
VmAt(defined) ==
    /\ vm_dir = defined
    /\ spec_json = defined
    /\ monitor_sock = FALSE
    /\ pid_exists = FALSE
    /\ pid_text = <<>>
    /\ qemu_log = FALSE
    /\ child = [k \in 1..MaxStarts |-> "none"]
    /\ qemu = [k \in 1..MaxStarts |-> "none"]
    /\ tap = [k \in 1..MaxStarts |-> "none"]
    /\ paused = [k \in 1..MaxStarts |-> FALSE]
    /\ listener = 0
    /\ nstarts = 0
    /\ vm_pc = "idle"
    /\ vm_op = "none"
    /\ vm_in = ""
    /\ vm_ret = NoVmRet
    /\ run_ret = FALSE
    /\ pid_read = 0
    /\ conn_to = 0
    /\ conns = 0
    /\ conn_sent = <<>>
    /\ nops = 0

\* the VM as VMSet::define leaves it
VmOff == VmAt(TRUE)

\* the VM before VMSet::define
VmNew == VmAt(FALSE)

AllocInit ==
    /\ lock_dir = FALSE
    /\ lock_pid = 0
    /\ netstate_exists = FALSE
    /\ netstate_file = NetState_new
    /\ pc = [p \in Procs |-> "idle"]
    /\ call = [p \in Procs |-> NoCall]
    /\ netstate = [p \in Procs |-> NetState_new]
    /\ ret = [p \in Procs |-> NoRet]
    /\ calls = 0
    /\ serial_exists = FALSE
    /\ serial_file = NetState_new
    /\ last_res = [h \in Hostnames |-> [set |-> FALSE, ip |-> 0, mac |-> 0]]
    /\ conc = [p \in Procs |-> {}]
    /\ live = [p \in Procs |-> FALSE]
    /\ trail = [stage |-> 0, hostname |-> "", mac |-> 0, ip |-> 0]

Init == AllocInit /\ ParseOff /\ QmpOff /\ VmOff /\ SizeOff

\* ---------------------------------------------------------- entry points
\* Process p enters operation op.  new_reservation goes straight for the
\* lock, the other three enter get_netstate_locked.  No step before the body
\* reads the arguments: they are drawn where the body first reads them.
Enter(p, op) ==
    /\ pc[p] = "idle"
    /\ call' = [call EXCEPT ![p] = CallOf(op, "", 0, 0)]
    /\ ret' = [ret EXCEPT ![p] = NoRet]
    /\ pc' = [pc EXCEPT ![p] = IF op = "new_reservation" THEN "acquire" ELSE "exists"]
    /\ conc' = [q \in Procs |->
                  IF q = p THEN {r \in Procs \ {p} : pc[r] # "idle"}
                  ELSE IF pc[q] # "idle" THEN conc[q] \cup {p}
                  ELSE conc[q] \ {p}]
    /\ live' = [live EXCEPT ![p] = FALSE]
    /\ UNCHANGED <<lockVars, fileVars, serialVars, netstate, last_res, trail>>
    /\ UNCHANGED nonAllocVars

\* the calls of a run are counted, MaxCalls of them are made
Start(p, op) ==
    /\ calls < MaxCalls
    /\ calls' = calls + 1
    /\ Enter(p, op)

call_new_reservation(p) == Start(p, "new_reservation")

call_remove_reservation(p) == Start(p, "remove_reservation")

call_add_lease(p) == Start(p, "add_lease")

call_del_lease(p) == Start(p, "del_lease")

\* the arguments a call of op can be made with; del_lease reads neither
\* _mac nor _hostname
Args(op) ==
    CASE op = "new_reservation" -> {CallOf(op, h, 0, 0) : h \in Hostnames}
      [] op = "remove_reservation" -> {CallOf(op, h, 0, 0) : h \in Hostnames}
      [] op = "add_lease" ->
            {CallOf(op, h, m, a) : h \in HostOpts, m \in MacPool, a \in LeaseAddrs}
      [] op = "del_lease" -> {CallOf(op, "", 0, a) : a \in LeaseAddrs}

\* The call of process p is over, by a return or by a panic that ends the
\* process: its locals are gone, `out` is what its caller (or its exit) shows.
Ends(p, out) ==
    /\ pc' = [pc EXCEPT ![p] = "idle"]
    /\ call' = [call EXCEPT ![p] = NoCall]
    /\ netstate' = [netstate EXCEPT ![p] = NetState_new]
    /\ ret' = [ret EXCEPT ![p] = out]

Panicked(why) == [outcome |-> why, info |-> NoInfo]

\* (mutation) get_netstate_locked goes for the lock without looking
get_netstate_locked_unchecked(p) ==
    /\ pc[p] = "exists"
    /\ pc' = [pc EXCEPT ![p] = "acquire"]
    /\ UNCHANGED <<lockVars, fileVars, serialVars, histVars, calls, call, netstate, ret>>
    /\ UNCHANGED nonAllocVars

\* get_netstate_locked: `if !path.exists() { panic!(..) }`, before the lock
get_netstate_locked_exists(p) ==
    /\ pc[p] = "exists"
    /\ IF netstate_exists
       THEN /\ pc' = [pc EXCEPT ![p] = "acquire"]
            /\ UNCHANGED <<call, netstate, ret>>
       ELSE Ends(p, Panicked("panic_nofile"))
    /\ UNCHANGED <<lockVars, fileVars, serialVars, histVars, calls>>
    /\ UNCHANGED nonAllocVars

\* ------------------------------------------------------------- LockFile
\* (mutation) create_dir_all: Ok also when the directory is already there
create_dir_all(dir_exists) == TRUE

\* std::fs::create_dir on the lock path: Ok exactly when it does not exist
create_dir(dir_exists) == ~dir_exists

\* (mutation) the loop is left on Err(_) as well as on Ok(_)
acquire_without_retry(p) ==
    /\ pc[p] = "acquire"
    /\ lock_dir' = TRUE
    /\ pc' = [pc EXCEPT ![p] = "write_pid"]
    /\ UNCHANGED <<lock_pid, fileVars, serialVars, histVars, call, netstate, ret, calls>>
    /\ UNCHANGED nonAllocVars

\* (mutation) a lock whose holder is no longer a process is taken over
acquire_breaking_stale(p) ==
    /\ pc[p] = "acquire"
    /\ create_dir(lock_dir) \/ (lock_pid \in Procs /\ pc[lock_pid] = "dead")
    /\ lock_dir' = TRUE
    /\ pc' = [pc EXCEPT ![p] = "write_pid"]
    /\ UNCHANGED <<lock_pid, fileVars, serialVars, histVars, call, netstate, ret, calls>>
    /\ UNCHANGED nonAllocVars

\* one turn of acquire's loop in which create_dir succeeds (a failed turn
\* sleeps and changes nothing)
acquire_create_dir(p) ==
    /\ pc[p] = "acquire"
    /\ create_dir(lock_dir)
    /\ lock_dir' = TRUE
    /\ pc' = [pc EXCEPT ![p] = "write_pid"]
    /\ UNCHANGED <<lock_pid, fileVars, serialVars, histVars, call, netstate, ret, calls>>
    /\ UNCHANGED nonAllocVars

\* acquire writes its pid into the directory and returns the guard
acquire_write_pid(p) ==
    /\ pc[p] = "write_pid"
    /\ IF lock_dir
       THEN /\ lock_pid' = p
            /\ pc' = [pc EXCEPT ![p] = "load"]
            /\ ret' = ret
            /\ UNCHANGED <<call, netstate>>
       ELSE \* fs::write(..).expect("error writing PID to lockfile")
            /\ lock_pid' = lock_pid
            /\ Ends(p, Panicked("panic_lock"))
    /\ UNCHANGED <<lock_dir, fileVars, serialVars, histVars, calls>>
    /\ UNCHANGED nonAllocVars

\* What the caller sees once the guard is dropped, for the outcome `out` the
\* body left: new_reservation returns the NetInfo; the other three return
\* nothing (Ok(()) or ()), whichever path their body took; a panic is a panic.
Returned(out) ==
    IF out.outcome \in {"existing", "created", "panic_nofree", "panic_parse", "panic_nofile"}
    THEN out
    ELSE [outcome |-> "ok", info |-> NoInfo]

\* release, first half: remove_file(pid).expect(..)
release_remove_file(p) ==
    /\ pc[p] = "release_pid"
    /\ IF lock_pid # 0
       THEN /\ lock_pid' = 0
            /\ pc' = [pc EXCEPT ![p] = "release_dir"]
            /\ ret' = ret
            /\ UNCHANGED <<call, netstate>>
       ELSE /\ lock_pid' = lock_pid
            /\ Ends(p, Panicked("panic_lock"))
    /\ UNCHANGED <<lock_dir, fileVars, serialVars, histVars, calls>>
    /\ UNCHANGED nonAllocVars

\* (mutation) release stops after the pid file: the directory is left
release_remove_dir_leaving(p) ==
    /\ pc[p] = "release_dir"
    /\ Ends(p, Returned(ret[p]))
    /\ UNCHANGED <<lockVars, fileVars, serialVars, histVars, calls>>
    /\ UNCHANGED nonAllocVars

\* (mutation) the result of remove_dir is dropped and the call returns
release_remove_dir_swallowed(p) ==
    /\ pc[p] = "release_dir"
    /\ lock_dir' = IF lock_pid = 0 THEN FALSE ELSE lock_dir
    /\ Ends(p, Returned(ret[p]))
    /\ UNCHANGED <<lock_pid, fileVars, serialVars, histVars, calls>>
    /\ UNCHANGED nonAllocVars

\* release, second half: remove_dir(path).expect(..); remove_dir needs the
\* directory to exist and to be empty.  The call then returns.
release_remove_dir(p) ==
    /\ pc[p] = "release_dir"
    /\ IF lock_dir /\ lock_pid = 0
       THEN /\ lock_dir' = FALSE
            /\ Ends(p, Returned(ret[p]))
       ELSE /\ lock_dir' = lock_dir
            /\ Ends(p, Panicked("panic_lock"))
    /\ UNCHANGED <<lock_pid, fileVars, serialVars, histVars, calls>>
    /\ UNCHANGED nonAllocVars

\* ------------------------------------------------- load, body and save
\* new_reservation: `match np.exists()`: from_file, or NetState::new();
\* get_netstate_locked: from_file, whose File::open(..).expect(..) panics
\* (and the unwinding drops the guard) when the file is not there
load(p) ==
    /\ pc[p] = "load"
    /\ IF netstate_exists
       THEN /\ netstate' = [netstate EXCEPT ![p] = netstate_file]
            /\ pc' = [pc EXCEPT ![p] = "body"]
            /\ ret' = ret
       ELSE IF call[p].op = "new_reservation"
       THEN /\ netstate' = [netstate EXCEPT ![p] = NetState_new]
            /\ pc' = [pc EXCEPT ![p] = "body"]
            /\ ret' = ret
       ELSE /\ netstate' = netstate
            /\ pc' = [pc EXCEPT ![p] = "release_pid"]
            /\ ret' = [ret EXCEPT ![p] = Panicked("panic_nofile")]
    /\ UNCHANGED <<lockVars, fileVars, serialVars, histVars, call, calls>>
    /\ UNCHANGED nonAllocVars

\* the table the serial run of the same call starts from
SerialLoaded == IF serial_exists THEN serial_file ELSE NetState_new

\* ------------------------------------------------------- history variables
NoRes == [set |-> FALSE, ip |-> 0, mac |-> 0]

\* last_res[h]: what the last new_reservation(h) returned, while no
\* remove_reservation(h) has run since
LastResAfter(c, r) ==
    IF c.op = "new_reservation" /\ r.outcome \in {"existing", "created"}
    THEN [last_res EXCEPT ![c.hostname] = [set |-> TRUE, ip |-> r.info.ip, mac |-> r.info.mac]]
    ELSE IF c.op = "remove_reservation"
    THEN [last_res EXCEPT ![c.hostname] = NoRes]
    ELSE last_res

\* live[q]: q's call is a new_reservation that got a reservation, and no
\* remove_reservation of its hostname has run since
LiveAfter(p, c, r) ==
    [q \in Procs |->
        IF q = p THEN c.op = "new_reservation" /\ r.outcome \in {"existing", "created"}
        ELSE live[q] /\ ~(c.op = "remove_reservation" /\ c.hostname = ret[q].info.hostname)]

\* trail: how far the bodies run so far end with the sequence
\* new_reservation(h) giving (mac, ip); add_lease(mac, ip, _);
\* remove_reservation(h); del_lease(_, ip, _), one directly after the other
NoTrail == [stage |-> 0, hostname |-> "", mac |-> 0, ip |-> 0]

TrailAfter(c, r) ==
    IF c.op = "new_reservation" /\ r.outcome \in {"existing", "created"}
    THEN [stage |-> 1, hostname |-> c.hostname, mac |-> r.info.mac, ip |-> r.info.ip]
    ELSE IF trail.stage = 1 /\ c.op = "add_lease" /\ c.mac = trail.mac /\ c.addr = trail.ip
    THEN [trail EXCEPT !.stage = 2]
    ELSE IF trail.stage = 2 /\ c.op = "remove_reservation" /\ c.hostname = trail.hostname
    THEN [trail EXCEPT !.stage = 3]
    ELSE IF trail.stage = 3 /\ c.op = "del_lease" /\ c.addr = trail.ip
    THEN [trail EXCEPT !.stage = 4]
    ELSE NoTrail

\* (mutation) a panic of the body ends the process with the guard not dropped
BodyWith_aborting(p, c, mac) ==
    LET r == Body(c, netstate[p], mac)
        g == Body(c, SerialLoaded, mac)
        panics == r.outcome \in {"panic_nofree", "panic_parse"}
    IN  /\ netstate_file' = IF r.saved THEN r.ns ELSE netstate_file
        /\ netstate_exists' = (netstate_exists \/ r.saved)
        /\ serial_file' = IF g.saved THEN g.ns ELSE serial_file
        /\ serial_exists' = (serial_exists \/ g.saved)
        /\ IF panics
           THEN Ends(p, Panicked(r.outcome))
           ELSE /\ call' = [call EXCEPT ![p] = c]
                /\ netstate' = [netstate EXCEPT ![p] = r.ns]
                /\ ret' = [ret EXCEPT ![p] = [outcome |-> r.outcome, info |-> r.info]]
                /\ pc' = [pc EXCEPT ![p] = "release_pid"]
        /\ last_res' = LastResAfter(c, r)
        /\ live' = LiveAfter(p, c, r)
        /\ trail' = TrailAfter(c, r)
        /\ UNCHANGED <<lockVars, calls, conc>>
        /\ UNCHANGED nonAllocVars

\* --------------------------------------------------------------- the body
\* The body of call c on the loaded table, ending with NetState::save (or
\* with a panic, or with nothing to save); the guard is dropped next.
BodyWith(p, c, mac) ==
    LET r == Body(c, netstate[p], mac)
        g == Body(c, SerialLoaded, mac)
    IN  /\ call' = [call EXCEPT ![p] = c]
        /\ netstate' = [netstate EXCEPT ![p] = r.ns]
        /\ netstate_file' = IF r.saved THEN r.ns ELSE netstate_file
        /\ netstate_exists' = (netstate_exists \/ r.saved)
        /\ serial_file' = IF g.saved THEN g.ns ELSE serial_file
        /\ serial_exists' = (serial_exists \/ g.saved)
        /\ ret' = [ret EXCEPT ![p] = [outcome |-> r.outcome, info |-> r.info]]
        /\ pc' = [pc EXCEPT ![p] = "release_pid"]
        /\ last_res' = LastResAfter(c, r)
        /\ live' = LiveAfter(p, c, r)
        /\ trail' = TrailAfter(c, r)
        /\ UNCHANGED <<lockVars, calls, conc>>
        /\ UNCHANGED nonAllocVars

\* generate_mac's loop runs until the mac is on no record: it ends with any
\* mac of the pool that no record carries, and does not end when there is none
body(p) ==
    /\ pc[p] = "body"
    /\ \E c \in Args(call[p].op) :
        IF c.op = "new_reservation" /\ GeneratesMac(netstate[p], c.hostname)
        THEN \E mac \in MacPool :
                /\ MacUnique(netstate[p].reservations, mac)
                /\ BodyWith(p, c, mac)
        ELSE BodyWith(p, c, 0)

Next ==
    \E p \in Procs :
        \/ call_new_reservation(p)
        \/ call_remove_reservation(p)
        \/ call_add_lease(p)
        \/ call_del_lease(p)
        \/ get_netstate_locked_exists(p)
        \/ acquire_create_dir(p)
        \/ acquire_write_pid(p)
        \/ load(p)
        \/ body(p)
        \/ release_remove_file(p)
        \/ release_remove_dir(p)

Spec == Init /\ [][Next]_vars

\* ------------------------------------------------ the lock, interfered with
\* The lock is a directory and a file that anything on the host can remove
\* (an operator clearing what looks like a stale lock): the pid file alone,
\* or the directory with what is in it.
external_remove_pid ==
    /\ lock_pid # 0
    /\ lock_pid' = 0
    /\ UNCHANGED <<lock_dir, fileVars, serialVars, histVars, pc, call, netstate, ret, calls>>
    /\ UNCHANGED nonAllocVars

external_remove_lock ==
    /\ lock_dir
    /\ lock_dir' = FALSE
    /\ lock_pid' = 0
    /\ UNCHANGED <<fileVars, serialVars, histVars, pc, call, netstate, ret, calls>>
    /\ UNCHANGED nonAllocVars

\* The table file exists and is empty, as a new_reservation followed by the
\* remove_reservation of the same hostname leaves it; nobody is in a call.
LockInit ==
    /\ lock_dir = FALSE
    /\ lock_pid = 0
    /\ netstate_exists = TRUE
    /\ netstate_file = NetState_new
    /\ pc = [p \in Procs |-> "idle"]
    /\ call = [p \in Procs |-> NoCall]
    /\ netstate = [p \in Procs |-> NetState_new]
    /\ ret = [p \in Procs |-> NoRet]
    /\ calls = 0
    /\ serial_exists = TRUE
    /\ serial_file = NetState_new
    /\ last_res = [h \in Hostnames |-> [set |-> FALSE, ip |-> 0, mac |-> 0]]
    /\ conc = [p \in Procs |-> {}]
    /\ live = [p \in Procs |-> FALSE]
    /\ trail = [stage |-> 0, hostname |-> "", mac |-> 0, ip |-> 0]

InitLock == LockInit /\ ParseOff /\ QmpOff /\ VmOff /\ SizeOff

\* the calls that take the lock through get_netstate_locked and, on the empty
\* table, save nothing, with the interference
NextLock ==
    \/ \E p \in Procs :
          \/ call_remove_reservation(p)
          \/ call_del_lease(p)
          \/ get_netstate_locked_exists(p)
          \/ acquire_create_dir(p)
          \/ acquire_write_pid(p)
          \/ load(p)
          \/ body(p)
          \/ release_remove_file(p)
          \/ release_remove_dir(p)
    \/ external_remove_pid
    \/ external_remove_lock

SpecLock == InitLock /\ [][NextLock]_vars

\* ------------------------------------------------- the lock, its holder dead
\* A process that has created the lock directory ends without running
\* release: it is killed, or it panics in acquire's fs::write before the
\* guard exists.  Its locals are gone, what it made on disk stays.
killed(p) ==
    /\ pc[p] \in {"write_pid", "load", "body", "release_pid", "release_dir"}
    /\ pc' = [pc EXCEPT ![p] = "dead"]
    /\ call' = [call EXCEPT ![p] = NoCall]
    /\ netstate' = [netstate EXCEPT ![p] = NetState_new]
    /\ ret' = [ret EXCEPT ![p] = NoRet]
    /\ UNCHANGED <<lockVars, fileVars, serialVars, histVars, calls>>
    /\ UNCHANGED nonAllocVars

NextCrash ==
    \E p \in Procs :
        \/ call_remove_reservation(p)
        \/ call_del_lease(p)
        \/ get_netstate_locked_exists(p)
        \/ acquire_create_dir(p)
        \/ acquire_write_pid(p)
        \/ load(p)
        \/ body(p)
        \/ release_remove_file(p)
        \/ release_remove_dir(p)
        \/ killed(p)

SpecCrash == InitLock /\ [][NextCrash]_vars

\* ------------------------------------------------------ the lock, contended
\* Processes that call again and again, without end: on the empty table
\* remove_reservation and del_lease take the lock, save nothing and release.
again_remove_reservation(p) == Enter(p, "remove_reservation") /\ UNCHANGED calls

again_del_lease(p) == Enter(p, "del_lease") /\ UNCHANGED calls

\* a step of process p inside its call
Runs(p) ==
    \/ get_netstate_locked_exists(p)
    \/ acquire_create_dir(p)
    \/ acquire_write_pid(p)
    \/ load(p)
    \/ body(p)
    \/ release_remove_file(p)
    \/ release_remove_dir(p)

NextContend ==
    \E p \in Procs :
        \/ again_remove_reservation(p)
        \/ again_del_lease(p)
        \/ get_netstate_locked_exists(p)
        \/ acquire_create_dir(p)
        \/ acquire_write_pid(p)
        \/ load(p)
        \/ body(p)
        \/ release_remove_file(p)
        \/ release_remove_dir(p)

\* every process inside a call is scheduled: a step of it that stays
\* possible is taken (a turn of acquire's loop comes every millisecond);
\* nothing makes a process call
SpecContend ==
    InitLock /\ [][NextContend]_vars /\ \A p \in Procs : WF_vars(Runs(p))

\* =================================================== the monitor's wire
\* Bytes.  A buffer is a sequence of bytes; the bytes that matter to the
\* framing are kept as they are and the text of an object's members, which
\* holds no whitespace outside strings, is one token:
\*   "E"  "timestamp": {"seconds": .., "microseconds": ..}, "event": ".."
\*   "B"  the same with a timestamp qmp::Timestamp's u64 fields refuse (-1)
\*   "R"  "return": {..}
\*   "X"  "error": {"class": "..", "desc": ".."}
\*   "Y"  the same with another desc, one that holds a quote
\*   "G"  "QMP": {"version": .., "capabilities": [..]}
CR == "\r"

LF == "\n"

Members == {"E", "B", "R", "X", "Y", "G"}

\* serde_json's whitespace between tokens (space and tab are left out)
IsWs(byt) == byt \in {CR, LF}

RECURSIVE SkipWs(_)
SkipWs(slice) ==
    IF slice # <<>> /\ IsWs(Head(slice)) THEN SkipWs(Tail(slice)) ELSE slice

RECURSIVE DropTrailingWs(_)
DropTrailingWs(slice) ==
    IF slice # <<>> /\ IsWs(slice[Len(slice)])
    THEN DropTrailingWs(SubSeq(slice, 1, Len(slice) - 1))
    ELSE slice

\* a serde_json::Value that is an object: here the token of its members,
\* "" for the empty object
NoValue == "?"

\* serde_json::from_slice::<Value>: one JSON value with whitespace around
\* it and between its tokens, and nothing else; anything else is an Err
from_slice(slice) ==
    LET t == DropTrailingWs(SkipWs(slice)) IN
    IF Len(t) >= 2 /\ t[1] = "{" /\ t[Len(t)] = "}"
    THEN LET inner == DropTrailingWs(SkipWs(SubSeq(t, 2, Len(t) - 1))) IN
         IF inner = <<>> THEN [ok |-> TRUE, val |-> ""]
         ELSE IF Len(inner) = 1 /\ inner[1] \in Members
         THEN [ok |-> TRUE, val |-> inner[1]]
         ELSE [ok |-> FALSE, val |-> NoValue]
    ELSE [ok |-> FALSE, val |-> NoValue]

\* (mutation) the buffer is split at the line feeds
IsDelimiter_lf(byt) == byt = LF

\* |byt| byt == &b"\r"[0]
IsDelimiter(byt) == byt = CR

\* buf.split_mut(pred): the slices between the bytes pred holds for (one
\* more slice than there are such bytes); cur is the slice begun so far
RECURSIVE split_mut(_, _)
split_mut(buf, cur) ==
    IF buf = <<>> THEN <<cur>>
    ELSE IF IsDelimiter(Head(buf)) THEN <<cur>> \o split_mut(Tail(buf), <<>>)
    ELSE split_mut(Tail(buf), Append(cur, Head(buf)))

\* (mutation) only empty slices are passed over
SkippedSlice_empty_only(slice) == Len(slice) = 0

\* slice.len() == 0 || (slice.len() == 1 && slice[0] == b"\n"[0])
SkippedSlice(slice) == Len(slice) = 0 \/ (Len(slice) = 1 /\ slice[1] = LF)

\* what a call of parse_qapi_stream comes to: the Vec it returns, or the
\* panic of from_slice(slice).unwrap()
Parsed(panic, values) == [panic |-> panic, vals |-> values]

\* the loop of parse_qapi_stream over the slices, vals collected so far
RECURSIVE ParseSlices(_, _)
ParseSlices(slices, acc) ==
    IF slices = <<>> THEN Parsed(FALSE, acc)
    ELSE IF SkippedSlice(Head(slices)) THEN ParseSlices(Tail(slices), acc)
    ELSE LET val == from_slice(Head(slices)) IN
         IF val.ok THEN ParseSlices(Tail(slices), Append(acc, val.val))
         ELSE Parsed(TRUE, <<>>)

parse_qapi_stream(buf) == ParseSlices(split_mut(buf, <<>>), <<>>)

\* ------------------------------------------------ parse_qapi_stream alone
\* whitespace a JSON text may hold between two tokens (none, or one byte)
WsOpt == {<<>>, <<CR>>, <<LF>>}

\* the member tokens of the objects the test's stream holds, none: {}
MemberOpt == {<<>>, <<"E">>, <<"R">>}

\* whole JSON objects, as texts
ObjectTexts ==
    {<<"{">> \o pre \o mem \o post \o <<"}">> :
        pre \in WsOpt, mem \in MemberOpt, post \in WsOpt}

\* the objects one after the other, each followed by \r\n
RECURSIVE Framed(_)
Framed(texts) ==
    IF texts = <<>> THEN <<>>
    ELSE Head(texts) \o <<CR, LF>> \o Framed(Tail(texts))

ParseInit ==
    /\ \E n \in 0..MaxObjs : objs \in [1..n -> ObjectTexts]
    /\ input = Framed(objs)
    /\ vals = Parsed(FALSE, <<>>)
    /\ parsed = FALSE

\* let vals = parse_qapi_stream(&mut input[..]);
test_parse_qapi_stream ==
    /\ ~parsed
    /\ vals' = parse_qapi_stream(input)
    /\ parsed' = TRUE
    /\ UNCHANGED <<objs, input, allocVars, qmpVars, vmVars, sizeVars>>

InitParse == ParseInit /\ AllocInit /\ QmpOff /\ VmOff /\ SizeOff

NextParse == test_parse_qapi_stream

SpecParse == InitParse /\ [][NextParse]_vars

\* --------------------------------------------------- the monitor: decoding
\* a message as the server writes it: one object on one line, then \r\n
Message(member) == <<"{", member, "}", CR, LF>>

\* (mutation) no value is taken for an event
IsEvent_never(val) == FALSE

\* val.get("event").is_some()
IsEvent(val) == val \in {"E", "B"}

\* serde_json::from_value::<qmp::Event>(val) is Ok
EventDecodes(val) == val = "E"

\* serde_json::from_value::<qmp::Response>(val) is Ok: the object has the one
\* key "return", or the one key "error" with a class and a desc
ResponseDecodes(val) == val \in {"R", "X", "Y"}

\* serde_json::from_slice::<qmp::Greeting>(&mut buf[..n]) is Ok
GreetingDecodes(buf) == from_slice(buf).ok /\ from_slice(buf).val = "G"

QUOTE == "\""

BACKSLASH == "\\"

\* err.desc() of the two error replies the server gives
Desc(val) == IF val = "X" THEN <<"a">> ELSE <<"a", QUOTE, "b">>

\* {:?} of a str: its characters, a quote and a backslash escaped
RECURSIVE EscapeDebug(_)
EscapeDebug(str) ==
    IF str = <<>> THEN <<>>
    ELSE (IF Head(str) \in {QUOTE, BACKSLASH} THEN <<BACKSLASH, Head(str)>>
          ELSE <<Head(str)>>) \o EscapeDebug(Tail(str))

\* (mutation) the description is left out of the message
ErrorText_bare(desc) == <<"Error from qemu monitor: ">>

\* format!("Error from qemu monitor: {:?}", err.desc())
ErrorText(desc) ==
    <<"Error from qemu monitor: ", QUOTE>> \o EscapeDebug(desc) \o <<QUOTE>>

\* (mutation) the event is decoded and dropped
Surfaced_dropped(log, val) == log

\* info!("{:?}", event): the event is surfaced in the log
Surfaced(log, val) == Append(log, val)

\* (mutation) the first value of a read is taken for the response
ForVals_first_value(values, i, log) ==
    IF i > Len(values) THEN [kind |-> "more", val |-> NoValue, at |-> 0, log |-> log]
    ELSE [kind |-> "resp", val |-> values[i], at |-> i, log |-> log]

\* the `for val in parse_qapi_stream(..)` loop of read_response over the
\* values of one read, from value i on, log: the events surfaced before it.
\* kind: "more" (the values ran out), "resp" (return Ok(resp)), "fail" (`?`)
RECURSIVE ForVals(_, _, _)
ForVals(values, i, log) ==
    IF i > Len(values) THEN [kind |-> "more", val |-> NoValue, at |-> 0, log |-> log]
    ELSE IF IsEvent(values[i])
    THEN IF EventDecodes(values[i])
         THEN ForVals(values, i + 1, Surfaced(log, values[i]))
         ELSE [kind |-> "fail", val |-> values[i], at |-> i, log |-> log]
    ELSE IF ResponseDecodes(values[i])
    THEN [kind |-> "resp", val |-> values[i], at |-> i, log |-> log]
    ELSE [kind |-> "fail", val |-> values[i], at |-> i, log |-> log]

\* (mutation) connect takes any reply for a success
IsErrorResponse_never(val) == FALSE

\* `if let qmp::Response::Error(err) = resp` / the match of execute
IsErrorResponse(val) == val \in {"X", "Y"}

\* Result<_, Error> of connect or of a command, src: which of the server's
\* messages it was taken from
Result(kind, val, text, src) ==
    [kind |-> kind, val |-> val, text |-> text, src |-> src]

\* what connect and execute make of the resp read_response returned
OfResponse(val, src) ==
    IF IsErrorResponse(val)
    THEN Result("error", val, ErrorText(Desc(val)), src)
    ELSE Result("return", val, <<>>, src)

\* ------------------------------------------------- the monitor: the server
\* The hypervisor's monitor: it greets a new connection, answers each
\* command it takes with one return or error message, and sends events when
\* it pleases.  It may also stop sending (a stopped or hung process) or
\* close the connection (it exits or is killed), with the client's last
\* commands taken or still unread.  System calls of the client are not
\* interrupted; they fail only on a connection the server has closed.
Commands == {"quit", "query-status", "cont", "stop"}

Negotiation == "qmp_capabilities"

\* the server writes one message
Send(member) ==
    /\ stream_in' = stream_in \o Message(member)
    /\ sent' = Append(sent, member)

clientVars == <<mon_pc, cmd, result, ncmds, written, nvals, from0, cut, taken, logged,
                spins>>

\* the greeting, or an object that is none
server_greeting ==
    /\ srv = "listening"
    /\ mon_pc # "start"
    /\ \E g \in {"G", ""} : Send(g)
    /\ srv' = "up"
    /\ UNCHANGED <<clientVars, stream_out, replied, nevents>>
    /\ UNCHANGED nonQmpVars

server_event ==
    /\ srv = "up"
    /\ nevents < MaxEvents
    /\ nevents' = nevents + 1
    /\ \E e \in {"E", "B"} : Send(e)
    /\ UNCHANGED <<clientVars, srv, stream_out, replied>>
    /\ UNCHANGED nonQmpVars

server_reply ==
    /\ srv = "up"
    /\ stream_out # <<>>
    /\ stream_out' = Tail(stream_out)
    /\ \E r \in {"R", "X", "Y"} :
        /\ Send(r)
        /\ replied' = Append(replied, r)
    /\ UNCHANGED <<clientVars, srv, nevents>>
    /\ UNCHANGED nonQmpVars

\* from here on the server sends nothing
server_silent ==
    /\ srv = "up"
    /\ srv' = "silent"
    /\ UNCHANGED <<clientVars, stream_in, stream_out, sent, replied, nevents>>
    /\ UNCHANGED nonQmpVars

server_close ==
    /\ srv \in {"up", "silent"}
    /\ srv' = "closed"
    /\ \E left \in {<<>>, stream_out} : stream_out' = left
    /\ UNCHANGED <<clientVars, stream_in, sent, replied, nevents>>
    /\ UNCHANGED nonQmpVars

\* ------------------------------------------------- the monitor: the client
\* a blocking read, or a select without timeout, returns: there are bytes,
\* or the peer has closed (then read returns 0 bytes)
Readable == stream_in # <<>> \/ srv = "closed"

\* `s.read(&mut buf)?` is an Err: the peer closed with bytes of the client
\* unread, and nothing is left to read (ECONNRESET of a unix stream socket)
ConnReset == srv = "closed" /\ stream_in = <<>> /\ stream_out # <<>>

\* `write!(&mut s, ..)?` is an Err: the peer has closed (EPIPE)
BrokenPipe == srv = "closed"

Min(a, b) == IF a < b THEN a ELSE b

\* n of `let n = s.read(&mut buf)?`, for a buf of BufLen bytes
ReadLen == Min(Len(stream_in), BufLen)

\* the bytes of one read are taken off the stream
Read ==
    /\ stream_in' = SubSeq(stream_in, ReadLen + 1, Len(stream_in))
    /\ taken' = taken + ReadLen
    /\ cut' = (cut \/ (taken + ReadLen) % Len(Message("E")) # 0)

\* UnixStream::connect(path)?
connect_open ==
    /\ mon_pc = "start"
    /\ mon_pc' = "greeting"
    /\ UNCHANGED <<srv, stream_in, stream_out, cmd, result, ncmds, nevents, sent,
                   replied, written, nvals, from0, cut, taken, logged, spins>>
    /\ UNCHANGED nonQmpVars

\* let n = s.read(&mut buf)?; let _greeting: qmp::Greeting = from_slice(..)?;
connect_read_greeting ==
    /\ mon_pc = "greeting"
    /\ Readable
    /\ Read
    /\ IF GreetingDecodes(SubSeq(stream_in, 1, ReadLen))
       THEN /\ mon_pc' = "caps"
            /\ nvals' = 1
            /\ result' = result
       ELSE /\ mon_pc' = "failed"
            /\ nvals' = nvals
            /\ result' = Result("fail", NoValue, <<>>, 0)
    /\ UNCHANGED <<srv, stream_out, cmd, ncmds, nevents, sent, replied, written,
                   from0, logged, spins>>
    /\ UNCHANGED nonQmpVars

\* write!(&mut s, "{}", caps)?: the command goes out, the drain begins
Write(command) ==
    /\ stream_out' = Append(stream_out, command)
    /\ written' = Append(written, command)
    /\ cmd' = command
    /\ from0' = nvals
    /\ logged' = <<>>
    /\ mon_pc' = "drain"

connect_write_caps ==
    /\ mon_pc = "caps"
    /\ IF BrokenPipe
       THEN /\ mon_pc' = "failed"
            /\ result' = Result("fail", NoValue, <<>>, 0)
            /\ UNCHANGED <<stream_out, written, cmd, from0, logged>>
       ELSE /\ Write(Negotiation)
            /\ result' = result
    /\ UNCHANGED <<srv, stream_in, ncmds, nevents, sent, replied, nvals,
                   cut, taken, spins>>
    /\ UNCHANGED nonQmpVars

\* Monitor::execute, called by quit, status, cont or stop; a write that
\* fails leaves a Monitor on which every later write fails as well
execute_write ==
    /\ mon_pc = "ready"
    /\ ncmds < MaxCmds
    /\ ncmds' = ncmds + 1
    /\ IF BrokenPipe
       THEN /\ mon_pc' = "broken"
            /\ result' = Result("fail", NoValue, <<>>, 0)
            /\ UNCHANGED <<stream_out, written, cmd, from0, logged>>
       ELSE /\ \E command \in Commands : Write(command)
            /\ result' = result
    /\ UNCHANGED <<srv, stream_in, nevents, sent, replied, nvals, cut, taken,
                   spins>>
    /\ UNCHANGED nonQmpVars

\* One turn of read_response's while loop: has_data(fd, true) returns, the
\* read, parse_qapi_stream and the for loop over the values; then, when the
\* loop returned, what the caller (connect or execute) does with it.
read_response ==
    /\ mon_pc = "drain"
    /\ Readable
    /\ Read
    /\ spins' = IF ReadLen = 0 /\ ~ConnReset THEN Min(spins + 1, MaxSpins) ELSE spins
    /\ LET p == parse_qapi_stream(SubSeq(stream_in, 1, ReadLen))
           r == ForVals(p.vals, 1, logged)
       IN  IF ConnReset
           THEN /\ mon_pc' = IF cmd # Negotiation THEN "ready" ELSE "failed"
                /\ result' = Result("fail", NoValue, <<>>, 0)
                /\ UNCHANGED <<nvals, logged>>
           ELSE IF p.panic
           THEN /\ mon_pc' = "panicked"
                /\ result' = Result("panic", NoValue, <<>>, 0)
                /\ UNCHANGED <<nvals, logged>>
           ELSE /\ nvals' = nvals + Len(p.vals)
                /\ logged' = r.log
                /\ IF r.kind = "more"
                   THEN UNCHANGED <<mon_pc, result>>
                   ELSE /\ result' = IF r.kind = "resp"
                                     THEN OfResponse(r.val, nvals + r.at)
                                     ELSE Result("fail", r.val, <<>>, nvals + r.at)
                        /\ mon_pc' = IF cmd # Negotiation THEN "ready"
                                     ELSE IF r.kind = "resp" /\ ~IsErrorResponse(r.val)
                                     THEN "ready"
                                     ELSE "failed"
    /\ UNCHANGED <<srv, stream_out, cmd, ncmds, nevents, sent, replied, written, from0>>
    /\ UNCHANGED nonQmpVars

ClientStep ==
    \/ connect_open
    \/ connect_read_greeting
    \/ connect_write_caps
    \/ execute_write
    \/ read_response

NextQmp ==
    \/ server_greeting
    \/ server_event
    \/ server_reply
    \/ server_silent
    \/ server_close
    \/ connect_open
    \/ connect_read_greeting
    \/ connect_write_caps
    \/ execute_write
    \/ read_response

SpecQmp == Init /\ [][NextQmp]_vars

\* the client is scheduled: a step of it that can be taken is taken
SpecQmpFair == SpecQmp /\ WF_vars(ClientStep)

\* ------------------------------------------------------------ the VM layer
\* vm.rs over the runtime directory of one VM.  start forks and returns, so
\* what it launched goes on behind the caller's back: the forked child runs
\* Process::run (spawn, then create the pid file, then write the pid into
\* it), the hypervisor binds monitor.sock some time after it was spawned and
\* is gone some time after a quit or a crash.  A caller makes one operation
\* at a time, each on a VM value it got from VMSet::get.  What happens on a
\* Monitor's connection is SpecQmp's; here Monitor::connect and a command
\* are one step each, ending in the Ok or the Err they can end in.
Pids == 1..MaxStarts

VmOps == {"running", "start", "stop", "cont", "status", "destroy", "undefine"}

\* the operations that go through VM::monitor
MonitorOps == {"stop", "cont", "status", "destroy"}

\* the command Monitor::stop, cont, status and quit execute
CommandOf(op) ==
    CASE op = "stop" -> "stop"
      [] op = "cont" -> "cont"
      [] op = "status" -> "query-status"
      [] op = "destroy" -> "quit"
      [] op = "undefine" -> "quit"

VmRet(kind, text) == [kind |-> kind, text |-> text]

fsVars == <<vm_dir, spec_json, monitor_sock, pid_exists, pid_text, qemu_log>>
procVars == <<child, qemu, tap, paused, listener, nstarts>>
connVars == <<conn_to, conns, conn_sent>>
runVars == <<run_ret, pid_read>>

\* the hypervisor is a process of the host
Alive(k) == qemu[k] \in {"booting", "listening", "quitting"}

\* Path::new(&format!("/proc/{}", pid)).exists()
ProcExists(pid) == pid \in Pids /\ Alive(pid)

\* write!(f, "{}", child.id()): the digits of the pid, as one token
PidText(pid) == <<pid>>

\* pst.parse::<u32>(): Ok(pid) for the digits of a pid, Err for anything
\* else, the empty string included
ParsePid(text) ==
    IF Len(text) = 1 /\ text[1] \in Pids
    THEN [ok |-> TRUE, pid |-> text[1]]
    ELSE [ok |-> FALSE, pid |-> 0]

\* VMSet::get: Ok(VM) when the directory and its spec.json exist
GetOk == vm_dir /\ spec_json

\* ---- the caller
\* An operation is called on the VM that VMSet::get returned; all of them
\* begin with running(), get's Err ends the call.
get_and_call(op) ==
    /\ vm_pc = "idle"
    /\ vm_op' = op
    /\ IF GetOk
       THEN vm_pc' = "r_sock" /\ vm_ret' = NoVmRet
       ELSE vm_pc' = "idle" /\ vm_ret' = VmRet("err", "No VM for id found")
    /\ vm_in' = ""
    /\ nops' = nops + 1
    /\ UNCHANGED <<fsVars, procVars, connVars, runVars>>
    /\ UNCHANGED nonVmVars

\* a caller that makes any operation, MaxOps of them
vm_call ==
    /\ nops < MaxOps
    /\ \E op \in VmOps : get_and_call(op)

\* running() returns b to the operation that called it
RunningReturns(b) ==
    /\ run_ret' = b
    /\ vm_pc' = "checked"
    /\ UNCHANGED <<vm_ret, pid_read>>

\* monp.exists()
SockExists == monitor_sock

\* running(): `if !monp.exists() { return false; }`
running_sock ==
    /\ vm_pc = "r_sock"
    /\ IF SockExists
       THEN vm_pc' = "r_pid" /\ UNCHANGED <<vm_ret, runVars>>
       ELSE RunningReturns(FALSE)
    /\ UNCHANGED <<fsVars, procVars, connVars, vm_op, vm_in, nops>>
    /\ UNCHANGED nonVmVars

\* running(): `if !pidp.exists() { return false; }`
running_pid ==
    /\ vm_pc = "r_pid"
    /\ IF pid_exists
       THEN vm_pc' = "r_read" /\ UNCHANGED <<vm_ret, runVars>>
       ELSE RunningReturns(FALSE)
    /\ UNCHANGED <<fsVars, procVars, connVars, vm_op, vm_in, nops>>
    /\ UNCHANGED nonVmVars

\* running(): File::open(pidp).expect(..), read_to_string(..).expect(..),
\* pst.parse::<u32>().expect("error parsing PID file contents")
running_read ==
    /\ vm_pc = "r_read"
    /\ LET parsed_pid == ParsePid(pid_text) IN
       IF ~pid_exists
       THEN /\ vm_pc' = "idle"
            /\ vm_ret' = VmRet("panic", "failed to open PID file")
            /\ UNCHANGED runVars
       ELSE IF ~parsed_pid.ok
       THEN /\ vm_pc' = "idle"
            /\ vm_ret' = VmRet("panic", "error parsing PID file contents")
            /\ UNCHANGED runVars
       ELSE /\ vm_pc' = "r_proc"
            /\ pid_read' = parsed_pid.pid
            /\ UNCHANGED <<vm_ret, run_ret>>
    /\ UNCHANGED <<fsVars, procVars, connVars, vm_op, vm_in, nops>>
    /\ UNCHANGED nonVmVars

\* running(): `if !procp.exists() { return false; }` and `true`
running_proc ==
    /\ vm_pc = "r_proc"
    /\ RunningReturns(ProcExists(pid_read))
    /\ UNCHANGED <<fsVars, procVars, connVars, vm_op, vm_in, nops>>
    /\ UNCHANGED nonVmVars

\* the operation `running` itself hands the value on
running ==
    /\ vm_pc = "checked"
    /\ vm_op = "running"
    /\ vm_pc' = "idle"
    /\ vm_ret' = VmRet("bool", IF run_ret THEN "true" ELSE "false")
    /\ UNCHANGED <<fsVars, procVars, connVars, runVars, vm_op, vm_in, nops>>
    /\ UNCHANGED nonVmVars

\* (mutation) start does not look at running()
AlreadyStarted_never(b) == FALSE

\* start: `if self.running()`
AlreadyStarted(b) == b

\* start after its running(): Err("VM already started"), or Process::new and
\* launch, whose fork gives the child that goes on in child_spawn, and Ok.
\* launch panics when fork fails.
start ==
    /\ vm_pc = "checked"
    /\ vm_op = "start"
    /\ vm_pc' = "idle"
    /\ IF AlreadyStarted(run_ret)
       THEN /\ vm_ret' = VmRet("err", "VM already started")
            /\ UNCHANGED procVars
       ELSE \/ /\ nstarts < MaxStarts
               /\ nstarts' = nstarts + 1
               /\ child' = [child EXCEPT ![nstarts + 1] = "forked"]
               /\ vm_ret' = VmRet("ok", "")
               /\ UNCHANGED <<qemu, tap, paused, listener>>
            \/ /\ vm_ret' = VmRet("panic", "Fork failed")
               /\ UNCHANGED procVars
    /\ UNCHANGED <<fsVars, connVars, runVars, vm_op, vm_in, nops>>
    /\ UNCHANGED nonVmVars

\* whether the operation is at VM::monitor
AtMonitor ==
    \/ vm_op \in MonitorOps
    \/ vm_op = "undefine" /\ vm_in = "destroy"

\* (mutation) monitor connects whatever running() said
NotStarted_never(b) == FALSE

\* monitor: `if !self.running()`
NotStarted(b) == ~b

\* a connect can end in Ok(Monitor) when a hypervisor listens on the socket
Listening ==
    /\ monitor_sock
    /\ listener \in Pids
    /\ qemu[listener] = "listening"

\* monitor after its running(): Err("VM not started"), or
\* qemu::Monitor::connect on monitor.sock, Ok or Err
monitor ==
    /\ vm_pc = "checked"
    /\ AtMonitor
    /\ IF NotStarted(run_ret)
       THEN /\ vm_pc' = "idle"
            /\ vm_ret' = VmRet("err", "VM not started")
            /\ UNCHANGED connVars
       ELSE /\ conns' = conns + 1
            /\ conn_sent' = <<>>
            /\ \/ /\ Listening
                  /\ conn_to' = listener
                  /\ vm_pc' = "connected"
                  /\ UNCHANGED vm_ret
               \/ /\ conn_to' = 0
                  /\ vm_pc' = "idle"
                  /\ vm_ret' = VmRet("err", "connect")
    /\ UNCHANGED <<fsVars, procVars, runVars, vm_op, vm_in, nops>>
    /\ UNCHANGED nonVmVars

\* the "status" member of query-status's return, for a guest that was not
\* started paused (build_cmd: pause_on_start = false)
RunState(k) == IF paused[k] THEN "paused" ELSE "running"

\* what the operation hands to its caller out of the return: Monitor::status
\* the status string, the others ()
Returned_text(op, k) == IF op = "status" THEN RunState(k) ELSE ""

\* self.monitor()?.stop() and the like: Monitor::execute of the operation's
\* command on the connection, answered by a return or an error; a hypervisor
\* that returns for quit is on its way out.  Inside undefine the `?` of
\* destroy ends the call on an Err.
command ==
    /\ vm_pc = "connected"
    /\ qemu[conn_to] = "listening"
    /\ conn_sent' = Append(conn_sent, CommandOf(vm_op))
    /\ \/ /\ qemu' = IF CommandOf(vm_op) = "quit"
                     THEN [qemu EXCEPT ![conn_to] = "quitting"]
                     ELSE qemu
          /\ paused' = CASE CommandOf(vm_op) = "stop" ->
                               [paused EXCEPT ![conn_to] = TRUE]
                          [] CommandOf(vm_op) = "cont" ->
                               [paused EXCEPT ![conn_to] = FALSE]
                          [] OTHER -> paused
          /\ IF vm_op = "undefine"
             THEN vm_pc' = "remove" /\ UNCHANGED vm_ret
             ELSE vm_pc' = "idle" /\ vm_ret' = VmRet("ok", Returned_text(vm_op, conn_to))
       \/ /\ vm_pc' = "idle"
          /\ vm_ret' = VmRet("err", "Error from qemu monitor")
          /\ UNCHANGED <<qemu, paused>>
    /\ UNCHANGED <<fsVars, child, tap, listener, nstarts, conn_to, conns,
                   runVars, vm_op, vm_in, nops>>
    /\ UNCHANGED nonVmVars

\* (mutation) undefine removes the directory without asking
RunningFirst_never(b) == FALSE

\* undefine: `if self.running()`
RunningFirst(b) == b

\* undefine after its running(): into destroy, which begins with monitor's own
\* running(), or straight on to the removal
undefine ==
    /\ vm_pc = "checked"
    /\ vm_op = "undefine"
    /\ vm_in = ""
    /\ IF RunningFirst(run_ret)
       THEN vm_pc' = "r_sock" /\ vm_in' = "destroy"
       ELSE vm_pc' = "remove" /\ UNCHANGED vm_in
    /\ UNCHANGED <<fsVars, procVars, connVars, runVars, vm_op, vm_ret, nops>>
    /\ UNCHANGED nonVmVars

\* undefine: std::fs::remove_dir_all(self.path()).unwrap() and Ok(()).  The
\* hypervisor keeps its socket, which no path leads to any more.
undefine_remove ==
    /\ vm_pc = "remove"
    /\ vm_pc' = "idle"
    /\ IF vm_dir
       THEN /\ vm_dir' = FALSE
            /\ spec_json' = FALSE
            /\ monitor_sock' = FALSE
            /\ pid_exists' = FALSE
            /\ pid_text' = <<>>
            /\ qemu_log' = FALSE
            /\ listener' = 0
            /\ vm_ret' = VmRet("ok", "")
       ELSE /\ vm_ret' = VmRet("panic", "remove_dir_all")
            /\ UNCHANGED <<fsVars, listener>>
    /\ UNCHANGED <<child, qemu, tap, paused, nstarts, connVars, runVars, vm_op,
                   vm_in, nops>>
    /\ UNCHANGED nonVmVars

\* ---- what start launched
\* what libc::open of the tap device can give: a descriptor or -1
TapResults == {"ok", "failed"}

\* Process::run in the child, up to the spawn.  qemu.log is opened with
\* create(true) and expect, which panics when the directory is gone.  The tap
\* device is opened and its result is not looked at: on -1 dup2 gives -1 and
\* the command is built with fd=-1 all the same.  Then cmd.spawn().unwrap():
\* the hypervisor is a process, or the child panics.
child_spawn(k) ==
    /\ child[k] = "forked"
    /\ IF ~vm_dir
       THEN /\ child' = [child EXCEPT ![k] = "failed"]
            /\ UNCHANGED <<qemu_log, tap, qemu>>
       ELSE /\ qemu_log' = TRUE
            /\ \E t \in TapResults : tap' = [tap EXCEPT ![k] = t]
            /\ \/ /\ child' = [child EXCEPT ![k] = "spawned"]
                  /\ qemu' = [qemu EXCEPT ![k] = "booting"]
               \/ /\ child' = [child EXCEPT ![k] = "failed"]
                  /\ UNCHANGED qemu
    /\ UNCHANGED <<vm_dir, spec_json, monitor_sock, pid_exists, pid_text, paused,
                   listener, nstarts, vm_pc, vm_op, vm_in, vm_ret, runVars,
                   connVars, nops>>
    /\ UNCHANGED nonVmVars

\* Process::run: File::create(self.pid_path()).expect(..): the file is there
\* and empty
child_create_pid(k) ==
    /\ child[k] = "spawned"
    /\ IF vm_dir
       THEN /\ pid_exists' = TRUE
            /\ pid_text' = <<>>
            /\ child' = [child EXCEPT ![k] = "created"]
       ELSE /\ child' = [child EXCEPT ![k] = "failed"]
            /\ UNCHANGED <<pid_exists, pid_text>>
    /\ UNCHANGED <<vm_dir, spec_json, monitor_sock, qemu_log, qemu, tap, paused,
                   listener, nstarts, vm_pc, vm_op, vm_in, vm_ret, runVars,
                   connVars, nops>>
    /\ UNCHANGED nonVmVars

\* Process::run: write!(f, "{}", child.id()), into the file if it is still
\* in the directory
child_write_pid(k) ==
    /\ child[k] = "created"
    /\ child' = [child EXCEPT ![k] = "exited"]
    /\ pid_text' = IF pid_exists THEN PidText(k) ELSE pid_text
    /\ UNCHANGED <<vm_dir, spec_json, monitor_sock, pid_exists, qemu_log, qemu,
                   tap, paused, listener, nstarts, vm_pc, vm_op, vm_in, vm_ret,
                   runVars, connVars, nops>>
    /\ UNCHANGED nonVmVars

\* the hypervisor binds the socket of `-qmp unix:<monitor.sock>,server,nowait`
\* and listens, or ends if it cannot
qemu_listen(k) ==
    /\ qemu[k] = "booting"
    /\ IF vm_dir
       THEN /\ monitor_sock' = TRUE
            /\ listener' = k
            /\ qemu' = [qemu EXCEPT ![k] = "listening"]
       ELSE /\ qemu' = [qemu EXCEPT ![k] = "gone"]
            /\ UNCHANGED <<monitor_sock, listener>>
    /\ UNCHANGED <<vm_dir, spec_json, pid_exists, pid_text, qemu_log, child,
                   tap, paused, nstarts, vm_pc, vm_op, vm_in, vm_ret, runVars,
                   connVars, nops>>
    /\ UNCHANGED nonVmVars

\* the hypervisor's process ends, after a quit or on its own; the socket file
\* it bound is removed or left behind, the pid file is left behind
qemu_exit(k) ==
    /\ Alive(k)
    /\ qemu' = [qemu EXCEPT ![k] = "gone"]
    /\ IF listener = k
       THEN /\ listener' = 0
            /\ monitor_sock' \in {monitor_sock, FALSE}
       ELSE UNCHANGED <<monitor_sock, listener>>
    /\ UNCHANGED <<vm_dir, spec_json, pid_exists, pid_text, qemu_log, child,
                   tap, paused, nstarts, vm_pc, vm_op, vm_in, vm_ret, runVars,
                   connVars, nops>>
    /\ UNCHANGED nonVmVars

NextVm ==
    \/ vm_call
    \/ running_sock
    \/ running_pid
    \/ running_read
    \/ running_proc
    \/ running
    \/ start
    \/ monitor
    \/ command
    \/ undefine
    \/ undefine_remove
    \/ \E k \in Pids : child_spawn(k)
    \/ \E k \in Pids : child_create_pid(k)
    \/ \E k \in Pids : child_write_pid(k)
    \/ \E k \in Pids : qemu_listen(k)
    \/ \E k \in Pids : qemu_exit(k)

SpecVm == Init /\ [][NextVm]_vars

\* ---- one VM from define to undefine
\* VMSet::define: create_dir_all of the VM's directory and spec.json written
\* into it, each with expect or unwrap; the VM is returned
define ==
    /\ vm_pc = "idle"
    /\ vm_op' = "define"
    /\ vm_dir' = TRUE
    /\ spec_json' = TRUE
    /\ vm_ret' = VmRet("ok", "")
    /\ vm_in' = ""
    /\ nops' = nops + 1
    /\ UNCHANGED <<monitor_sock, pid_exists, pid_text, qemu_log, procVars,
                   connVars, runVars, vm_pc>>
    /\ UNCHANGED nonVmVars

\* the operations of a VM's life in the order a caller makes them
EndToEnd == <<"define", "start", "status", "stop", "status", "destroy",
              "running", "undefine">>

\* the operation returned without Err or panic
Succeeded == vm_ret.kind \in {"ok", "bool"}

\* the caller makes the next operation of EndToEnd as soon as the one before
\* has returned, and gives up at the first that fails
e2e_call ==
    /\ nops < Len(EndToEnd)
    /\ nops = 0 \/ Succeeded
    /\ IF EndToEnd[nops + 1] = "define"
       THEN define
       ELSE get_and_call(EndToEnd[nops + 1])

\* The host and the hypervisor do their part: the fork, the open of the tap
\* device and the exec succeed, the hypervisor accepts the connection once it
\* listens, returns for every command, and ends only after a quit.  How long
\* each of them takes is left open.
NextE2E ==
    \/ e2e_call
    \/ running_sock
    \/ running_pid
    \/ running_read
    \/ running_proc
    \/ running
    \/ start /\ vm_ret'.kind # "panic"
    \/ monitor /\ (Listening => vm_pc' = "connected")
    \/ command /\ vm_ret'.kind # "err"
    \/ undefine
    \/ undefine_remove
    \/ \E k \in Pids : child_spawn(k) /\ child'[k] = "spawned" /\ tap'[k] = "ok"
    \/ \E k \in Pids : child_create_pid(k)
    \/ \E k \in Pids : child_write_pid(k)
    \/ \E k \in Pids : qemu_listen(k)
    \/ \E k \in Pids : qemu_exit(k) /\ qemu[k] = "quitting"

InitE2E == AllocInit /\ ParseOff /\ QmpOff /\ VmNew /\ SizeOff

SpecE2E == InitE2E /\ [][NextE2E]_vars

\* ============================================================ models::to_size
\* Numbers are kept exact: a natural number is the sequence of its limbs to
\* the base 2^16, lowest first, without high zero limbs, so that a u64 is
\* what fits into four of them.
LimbBase == 65536
U64Limbs == 4

\* the number without its high zero limbs
RECURSIVE Norm(_)
Norm(v) ==
    IF v = <<>> THEN <<>>
    ELSE IF v[Len(v)] = 0 THEN Norm(SubSeq(v, 1, Len(v) - 1))
    ELSE v

\* v * k + carry, for small k and carry
RECURSIVE MulAdd(_, _, _)
MulAdd(v, k, carry) ==
    IF v = <<>>
    THEN IF carry = 0 THEN <<>>
         ELSE <<carry % LimbBase>> \o MulAdd(<<>>, k, carry \div LimbBase)
    ELSE LET t == Head(v) * k + carry IN
         <<t % LimbBase>> \o MulAdd(Tail(v), k, t \div LimbBase)

\* v * k^e
RECURSIVE MulPow(_, _, _)
MulPow(v, k, e) == IF e = 0 THEN Norm(v) ELSE MulPow(Norm(MulAdd(v, k, 0)), k, e - 1)

\* the number fits a u64
FitsU64(v) == Len(v) <= U64Limbs

\* the number as a wrapping u64 operation leaves it
WrapU64(v) == IF FitsU64(v) THEN v ELSE Norm(SubSeq(v, 1, U64Limbs))

Digits == {"0", "1", "2", "3", "4", "5", "6", "7", "8", "9"}

DigitVal(ch) ==
    CASE ch = "0" -> 0 [] ch = "1" -> 1 [] ch = "2" -> 2 [] ch = "3" -> 3
      [] ch = "4" -> 4 [] ch = "5" -> 5 [] ch = "6" -> 6 [] ch = "7" -> 7
      [] ch = "8" -> 8 [] ch = "9" -> 9

\* the value of a run of decimal digits read onto acc
RECURSIVE Decimal(_, _)
Decimal(digits, acc) ==
    IF digits = <<>> THEN Norm(acc)
    ELSE Decimal(Tail(digits), MulAdd(acc, 10, DigitVal(Head(digits))))

\* str::parse::<u64>: an optional '+', then one digit or more and nothing
\* else; Err on any other text and on a value above u64::MAX
parse_u64(text) ==
    LET digits == IF text # <<>> /\ text[1] = "+" THEN Tail(text) ELSE text IN
    IF digits = <<>> \/ \E i \in 1..Len(digits) : digits[i] \notin Digits
    THEN [ok |-> FALSE, val |-> <<>>]
    ELSE LET v == Decimal(digits, <<>>) IN
         IF FitsU64(v) THEN [ok |-> TRUE, val |-> v] ELSE [ok |-> FALSE, val |-> <<>>]

\* `let exp = match last { "T" | "t" => 3, "G" | "g" => 3, "M" | "m" => 2,
\* "K" | "k" => 1, _ => 0 }`
exp_of(last) ==
    CASE last \in {"T", "t"} -> 3
      [] last \in {"G", "g"} -> 3
      [] last \in {"M", "m"} -> 2
      [] last \in {"K", "k"} -> 1
      [] OTHER -> 0

SizeRet(kind, val) == [kind |-> kind, val |-> val]

\* to_size(s), in a build with overflow checks or without.  The slices
\* &s[s.len() - 1..] and &s[s.len() - 2..s.len() - 1] panic on a string of
\* fewer than two characters (the subtraction, or the range it wraps to).
to_size(s, checks) ==
    IF Len(s) < 2 THEN SizeRet("panic", <<>>)
    ELSE LET n == Len(s)
             binary == s[n] = "i"
             last == IF binary THEN s[n - 1] ELSE s[n]
             co == IF binary THEN 1024 ELSE 1000
             num == IF binary THEN SubSeq(s, 1, n - 2) ELSE SubSeq(s, 1, n - 1)
             exp == exp_of(last)
             scalar == parse_u64(num)
         IN  IF ~scalar.ok THEN SizeRet("err", <<>>)
             ELSE LET product == MulPow(scalar.val, co, exp) IN
                  IF FitsU64(product) THEN SizeRet("ok", product)
                  ELSE IF checks THEN SizeRet("panic", <<>>)
                  ELSE SizeRet("ok", WrapU64(product))

\* ---- the calls made
\* the numbers written in front of the suffix: 0, 1, 12, 100, and 2^40
Numerals ==
    {<<"0">>, <<"1">>, <<"1", "2">>, <<"1", "0", "0">>,
     <<"1", "0", "9", "9", "5", "1", "1", "6", "2", "7", "7", "7", "6">>}

SuffixChars == {"k", "K", "m", "M", "g", "G", "t", "T", "i", "x"}

\* what follows the number: nothing, one or two characters, or "Timmies"
Suffixes ==
    {<<>>} \cup {<<a>> : a \in SuffixChars}
           \cup {<<a, b>> : a \in SuffixChars, b \in SuffixChars}
           \cup {<<"T", "i", "m", "m", "i", "e", "s">>}

SizeInit ==
    /\ \E num \in Numerals \cup {<<>>}, suf \in Suffixes : size_s = num \o suf
    /\ size_checks \in BOOLEAN
    /\ size_ret = NoSize
    /\ size_done = FALSE

test_sizestring_to_size ==
    /\ ~size_done
    /\ size_ret' = to_size(size_s, size_checks)
    /\ size_done' = TRUE
    /\ UNCHANGED <<size_s, size_checks>>
    /\ UNCHANGED nonSizeVars

InitSize == SizeInit /\ AllocInit /\ ParseOff /\ QmpOff /\ VmOff

NextSize == test_sizestring_to_size

SpecSize == InitSize /\ [][NextSize]_vars

\* ================================================================ claims
\* the process is between the return of its acquire and the end of its release
InGuard(p) == pc[p] \in {"load", "body", "release_pid", "release_dir"}

\* the process's create_dir has succeeded and its release has not finished
HasLock(p) == pc[p] = "write_pid" \/ InGuard(p)

\* C1: at most one process at a time is between the return of its acquire
\* and the end of its release, and no other acquire gets past create_dir
\* while the lock directory exists: whoever has the lock has it alone, and
\* the directory exists for as long as it has it.
C1_MutualExclusion ==
    \A p \in Procs :
        HasLock(p) => (lock_dir /\ \A q \in Procs \ {p} : ~HasLock(q))

\* one process is inside its guard while another one is spinning in acquire
C1_Witness ==
    \E p \in Procs, q \in Procs :
        p # q /\ InGuard(p) /\ pc[p] = "body" /\ pc[q] = "acquire"

\* C2: every call loads, changes and saves the table while it holds the
\* lock, and the table on disk always equals the one obtained by running the
\* same calls whole, one after another, in the order they got the lock.
C2_SerialEquivalence ==
    /\ netstate_exists = serial_exists
    /\ netstate_file = serial_file
    /\ \A p \in Procs : pc[p] \in {"load", "body"} => (lock_dir /\ lock_pid = p)

\* two calls that overlapped in time have both saved: both updates are there
C2_Witness ==
    \E p \in Procs, q \in Procs :
        /\ p # q /\ q \in conc[p]
        /\ pc[p] = "idle" /\ ret[p].outcome = "created"
        /\ pc[q] = "release_pid" /\ call[q].op = "add_lease"
        /\ ret[q].outcome = "synthesized"
        /\ Len(netstate_file.reservations) = 2

\* process p's body runs in this step
BodyStep(p) == pc[p] = "body" /\ pc'[p] = "release_pid"

\* record r, or one with its mac, ip and hostname, is in the table res
Carries(res, r) ==
    \E j \in 1..Len(res) :
        res[j].mac = r.mac /\ res[j].ip = r.ip /\ res[j].hostname = r.hostname

\* record i of table res after the update call c makes to its flags
UpdatedBy(c, res, i) ==
    CASE c.op = "new_reservation" /\ i = FindHostname(res, c.hostname) ->
            [res[i] EXCEPT !.allocated = TRUE]
      [] c.op = "remove_reservation" /\ i = FindHostname(res, c.hostname) ->
            [res[i] EXCEPT !.allocated = FALSE]
      [] c.op = "add_lease" /\ i = FindIp(res, c.addr) ->
            [res[i] EXCEPT !.leased = TRUE]
      [] c.op = "del_lease" /\ i = FindIp(res, c.addr) ->
            [res[i] EXCEPT !.leased = FALSE]
      [] OTHER -> res[i]

EveryRecordFlagged ==
    \A i \in 1..Len(netstate_file.reservations) :
        netstate_file.reservations[i].allocated \/ netstate_file.reservations[i].leased

\* C3: every record of the saved table is allocated or leased, and a call
\* keeps a record of the table exactly when the record is allocated or leased
\* after the call's update of its flags: it deletes a record only when both
\* flags are false then.
C3_RetainedIffAllocatedOrLeased ==
    /\ []EveryRecordFlagged
    /\ [][\A p \in Procs : BodyStep(p) =>
            \A i \in 1..Len(netstate_file.reservations) :
                LET u == UpdatedBy(call'[p], netstate_file.reservations, i) IN
                Carries(netstate_file'.reservations, u) <=> (u.allocated \/ u.leased)]_vars

\* a del_lease has just purged a record and a flagged record is left
C3_Witness ==
    \E p \in Procs :
        /\ pc[p] = "release_pid" /\ call[p].op = "del_lease"
        /\ ret[p].outcome = "removed"
        /\ Len(netstate_file.reservations) = 1

\* p and q hold reservations for different hostnames that they got from
\* new_reservation calls which overlapped in time
ConcurrentReservations(p, q) ==
    /\ p # q /\ q \in conc[p]
    /\ live[p] /\ live[q]
    /\ ret[p].info.hostname # ret[q].info.hostname

\* C4 as stated: two new_reservation calls for different hostnames that run
\* concurrently return records with different IPs and different MACs.
C4_DistinctIpAndMac ==
    \A p \in Procs, q \in Procs :
        ConcurrentReservations(p, q) =>
            /\ ret[p].info.ip # ret[q].info.ip
            /\ ret[p].info.mac # ret[q].info.mac

\* C4 amended: they return records with different IPs, and with different
\* MACs when both calls allocate a new record.
C4_DistinctIpAndGeneratedMac ==
    \A p \in Procs, q \in Procs :
        ConcurrentReservations(p, q) =>
            /\ ret[p].info.ip # ret[q].info.ip
            /\ (ret[p].outcome = "created" /\ ret[q].outcome = "created")
                    => ret[p].info.mac # ret[q].info.mac

\* two overlapping calls have both returned a newly allocated record
C4_Witness ==
    \E p \in Procs, q \in Procs :
        /\ ConcurrentReservations(p, q)
        /\ pc[p] = "idle" /\ pc[q] = "idle"
        /\ ret[p].outcome = "created" /\ ret[q].outcome = "created"

GotReservation(p) == ret[p].outcome \in {"existing", "created"}

\* C5 as stated: every IP new_reservation returns is a host address of the
\* CIDR and neither the first nor the last usable one.
C5_NeverFirstNorLastHost ==
    \A p \in Procs : GotReservation(p) =>
        (GatewayOctet < ret[p].info.ip /\ ret[p].info.ip < HostMax)

\* C5 amended: every IP new_reservation allocates for a hostname that has no
\* record is a host address of the CIDR other than the first usable one (the
\* last usable one included).
C5_AllocatedNeverFirstHost ==
    \A p \in Procs : ret[p].outcome = "created" =>
        (GatewayOctet < ret[p].info.ip /\ ret[p].info.ip <= HostMax)

\* a call has returned the last usable host address, newly allocated
C5_Witness ==
    \E p \in Procs :
        pc[p] = "idle" /\ ret[p].outcome = "created" /\ ret[p].info.ip = HostMax

\* C6: a new_reservation(h) that follows a new_reservation(h) with no
\* remove_reservation(h) in between returns the IP and the MAC the earlier
\* call returned, and adds no record to the table.
C6_Idempotent ==
    [][\A p \in Procs :
        (/\ BodyStep(p)
         /\ call'[p].op = "new_reservation"
         /\ last_res[call'[p].hostname].set) =>
            /\ GotReservation(p)'
            /\ ret'[p].info.ip = last_res[call'[p].hostname].ip
            /\ ret'[p].info.mac = last_res[call'[p].hostname].mac
            /\ Len(netstate_file'.reservations) = Len(netstate_file.reservations)]_vars

\* q allocated a record for a hostname, nobody removed the reservation, and p
\* has now been given the same record for the same hostname
C6_Witness ==
    \E p \in Procs, q \in Procs :
        /\ p # q
        /\ pc[q] = "idle" /\ ret[q].outcome = "created" /\ live[q]
        /\ pc[p] = "release_pid" /\ call[p].op = "new_reservation"
        /\ call[p].hostname = ret[q].info.hostname
        /\ ret[p].outcome = "existing"
        /\ ret[p].info.ip = ret[q].info.ip

\* C7: after new_reservation(h) giving (mac, ip), add_lease(mac, ip) and
\* remove_reservation(h), the record is in the table with allocated = false
\* and leased = true; after a following del_lease(mac, ip) it is not.
C7_LeaseOutlivesReservation ==
    /\ trail.stage = 3 =>
        \E i \in 1..Len(netstate_file.reservations) :
            netstate_file.reservations[i] =
                NetInfo(trail.mac, trail.ip, trail.hostname, FALSE, TRUE)
    /\ trail.stage = 4 =>
        \A i \in 1..Len(netstate_file.reservations) :
            /\ netstate_file.reservations[i].ip # trail.ip
            /\ ~(/\ netstate_file.reservations[i].hostname = trail.hostname
                 /\ netstate_file.reservations[i].mac = trail.mac)

\* the four calls have run, one after the other
C7_Witness == trail.stage = 4 /\ \A p \in Procs : pc[p] = "idle"

\* the addresses new_reservation can allocate: the hosts above the gateway
EligibleAddrs == (GatewayOctet + 1)..HostMax

\* C8: when every eligible address is carried by some record, a
\* new_reservation for a hostname that has no record panics, returns no
\* address and leaves the saved table as it was.
C8_ExhaustionIsFatal ==
    [][\A p \in Procs :
        (/\ BodyStep(p)
         /\ call'[p].op = "new_reservation"
         /\ FindHostname(netstate_file.reservations, call'[p].hostname) = 0
         /\ \A a \in EligibleAddrs :
                \E i \in 1..Len(netstate_file.reservations) :
                    netstate_file.reservations[i].ip = a) =>
            /\ ret'[p].outcome \in {"panic_nofree", "panic_parse"}
            /\ ret'[p].info = NoInfo
            /\ netstate_file' = netstate_file
            /\ netstate_exists' = netstate_exists]_vars

\* a call has ended with "No more free addresses on network"
C8_Witness ==
    \E p \in Procs :
        /\ pc[p] = "idle" /\ ret[p].outcome = "panic_nofree"
        /\ \A a \in EligibleAddrs :
                \E i \in 1..Len(netstate_file.reservations) :
                    netstate_file.reservations[i].ip = a

\* C9: add_lease for an IP that no record carries leaves a record for that
\* IP with allocated = false and leased = true, and a new_reservation for a
\* hostname that has no record never returns an IP that a record of the
\* table carries (so not that one, while it stays).
C9_LeasedAddressNotHandedOut ==
    [][\A p \in Procs : BodyStep(p) =>
        /\ (call'[p].op = "add_lease"
            /\ FindIp(netstate_file.reservations, call'[p].addr) = 0) =>
                \E i \in 1..Len(netstate_file'.reservations) :
                    /\ netstate_file'.reservations[i].ip = call'[p].addr
                    /\ ~netstate_file'.reservations[i].allocated
                    /\ netstate_file'.reservations[i].leased
        /\ (call'[p].op = "new_reservation"
            /\ FindHostname(netstate_file.reservations, call'[p].hostname) = 0
            /\ GotReservation(p)') =>
                \A i \in 1..Len(netstate_file.reservations) :
                    netstate_file.reservations[i].ip # ret'[p].info.ip]_vars

\* the lowest eligible address is held by a lease alone, and a call for a new
\* hostname has been given the next one
C9_Witness ==
    \E p \in Procs :
        /\ pc[p] = "release_pid" /\ ret[p].outcome = "created"
        /\ ret[p].info.ip = GatewayOctet + 2
        /\ \E i \in 1..Len(netstate_file.reservations) :
            /\ netstate_file.reservations[i].ip = GatewayOctet + 1
            /\ ~netstate_file.reservations[i].allocated
            /\ netstate_file.reservations[i].leased

\* C10 as stated: no two records of the table have the same hostname.
C10_OneRecordPerHostname ==
    \A i \in 1..Len(netstate_file.reservations) :
        \A j \in 1..Len(netstate_file.reservations) :
            i # j => netstate_file.reservations[i].hostname
                        # netstate_file.reservations[j].hostname

\* C10 amended: no two allocated records of the table have the same
\* hostname (records that add_lease synthesized may share one).
C10_OneAllocatedRecordPerHostname ==
    \A i \in 1..Len(netstate_file.reservations) :
        \A j \in 1..Len(netstate_file.reservations) :
            (/\ i # j
             /\ netstate_file.reservations[i].allocated
             /\ netstate_file.reservations[j].allocated) =>
                netstate_file.reservations[i].hostname
                    # netstate_file.reservations[j].hostname

\* an allocated record and one that add_lease synthesized carry one hostname,
\* and a new_reservation for that hostname has been given the existing record
C10_Witness ==
    \E i \in 1..Len(netstate_file.reservations) :
        \E j \in 1..Len(netstate_file.reservations) :
            /\ i < j
            /\ netstate_file.reservations[i].hostname
                    = netstate_file.reservations[j].hostname
            /\ netstate_file.reservations[i].allocated
            /\ ~netstate_file.reservations[j].allocated
            /\ \E p \in Procs :
                /\ pc[p] = "idle" /\ ret[p].outcome = "existing"
                /\ ret[p].info.hostname = netstate_file.reservations[i].hostname

\* the value serde_json gives for a whole object text
ValueOf(text) == from_slice(text).val

\* the call returned the objects' values, one per object, in stream order
ReturnsTheObjects ==
    /\ ~vals.panic
    /\ Len(vals.vals) = Len(objs)
    /\ \A i \in 1..Len(objs) : vals.vals[i] = ValueOf(objs[i])

\* C12 as stated: given N whole JSON objects, each followed by \r\n,
\* parse_qapi_stream returns exactly their N values in stream order.
C12_OneValuePerObject == parsed => ReturnsTheObjects

HoldsCR(text) == \E i \in 1..Len(text) : text[i] = CR

\* C12 amended: it does so when no object holds a CR byte (an event object
\* followed by a return object then gives two distinct values).
C12_OneValuePerObjectWithoutCR ==
    (parsed /\ \A i \in 1..Len(objs) : ~HoldsCR(objs[i])) => ReturnsTheObjects

\* the test's stream: an event object, then a return object
C12_Witness ==
    /\ parsed
    /\ objs = << <<"{", "E", "}">>, <<"{", "R", "}">> >>
    /\ vals = Parsed(FALSE, <<"E", "R">>)

\* --------------------------------------------------------- the monitor
\* connect or the last command written has returned to its caller
Replied == mon_pc \in {"ready", "failed"} /\ written # <<>>

IsReplyMessage(member) == member \in {"R", "X", "Y"}

\* the object has an "event" key
CarriesEventKey(member) == member \in {"E", "B"}

\* Of the messages the client had not read when it wrote the command, and
\* those sent since, the j-th of the stream is a return or an error and all
\* before it are events (that decode as qmp::Event).
EventsThenReply(j) ==
    /\ j \in (from0 + 1)..Len(sent)
    /\ IsReplyMessage(sent[j])
    /\ \A i \in (from0 + 1)..(j - 1) : sent[i] = "E"

C13_EventNeverTheResult ==
    /\ result.kind \in {"none", "return", "error", "fail", "panic"}
    /\ result.kind \in {"return", "error"} =>
        /\ ~CarriesEventKey(result.val)
        /\ result.src \in 1..Len(sent)
        /\ ~CarriesEventKey(sent[result.src])

\* a command has returned its reply after an event was surfaced
C13_Witness ==
    /\ Replied /\ cmd \in Commands
    /\ result.kind = "return"
    /\ logged # <<>>

\* the server has stopped sending and has not answered the command
NoReplyComing == srv = "silent" /\ Len(replied) < Len(written)

\* C14 as stated: when the server sends no return or error for a command
\* and stays idle (it does not close the connection either), the drain ends
\* and the command fails.
C14_DrainEndsOnIdleSocket ==
    (mon_pc = "drain" /\ NoReplyComing)
        ~> \/ mon_pc \in {"ready", "failed"} /\ result.kind = "fail"
           \/ srv = "closed"

\* the characters a {:?} rendering stands for
RECURSIVE UnescapeDebug(_)
UnescapeDebug(str) ==
    IF str = <<>> THEN <<>>
    ELSE IF Head(str) = BACKSLASH /\ Len(str) >= 2
    THEN <<str[2]>> \o UnescapeDebug(SubSeq(str, 3, Len(str)))
    ELSE <<Head(str)>> \o UnescapeDebug(Tail(str))

\* the message is the prefix and a quoted, escaped rendering of desc
CarriesDesc(text, desc) ==
    /\ Len(text) >= 3
    /\ text[1] = "Error from qemu monitor: "
    /\ text[2] = QUOTE /\ text[Len(text)] = QUOTE
    /\ UnescapeDebug(SubSeq(text, 3, Len(text) - 1)) = desc

\* C15: when the message taken as the reply is an error object, the caller
\* gets a client error whose text carries the server's desc, and every
\* command has been written once: one write per connect and per execute.
C15_ErrorReplySurfacedOnce ==
    (Replied /\ result.src \in 1..Len(sent) /\ sent[result.src] \in {"X", "Y"}) =>
        /\ result.kind = "error"
        /\ CarriesDesc(result.text, Desc(sent[result.src]))
        /\ Len(written) = ncmds + 1

\* a command got the error whose desc holds a quote
C15_Witness ==
    /\ Replied /\ cmd \in Commands
    /\ result.kind = "error"
    /\ result.src \in 1..Len(sent) /\ sent[result.src] = "Y"

\* there is a Monitor: connect returned Ok, or a command is under way
Usable ==
    \/ mon_pc \in {"ready", "broken"}
    \/ mon_pc \in {"drain", "panicked"} /\ cmd \in Commands

\* C16: qmp_capabilities is written only after the greeting was read and
\* parsed; a Monitor exists, and a command is written, only when moreover
\* the server's reply to qmp_capabilities was a return; when the greeting
\* is not one, connect fails and nothing is written.
C16_NegotiatedBeforeUse ==
    /\ written # <<>> =>
        (taken > 0 /\ sent # <<>> /\ sent[1] = "G" /\ written[1] = Negotiation)
    /\ (Usable \/ Len(written) >= 2) =>
        /\ sent # <<>> /\ sent[1] = "G"
        /\ replied # <<>> /\ replied[1] = "R"
    /\ (mon_pc \notin {"start", "greeting"} /\ sent # <<>> /\ sent[1] # "G") =>
        (mon_pc = "failed" /\ written = <<>>)

\* the negotiation was refused and connect failed
C16_Witness ==
    /\ mon_pc = "failed"
    /\ written = <<Negotiation>>
    /\ replied = <<"X">>
    /\ result.kind = "error"

\* ------------------------------------------------------------------ C17
\* the caller is inside running()
InRunning == vm_pc \in {"r_sock", "r_pid", "r_read", "r_proc"}

\* the step is one of running() and ends it with the value b
RunningGave(b) == vm_pc' = "checked" /\ run_ret' = b

\* the step is one of running() and ends it, with a value or without
RunningEnds == InRunning /\ vm_pc' \notin {"r_sock", "r_pid", "r_read", "r_proc"}

\* C17: running() returns true exactly when monitor.sock exists, the pid file
\* exists and /proc/<pid> exists for the pid in that file, each as running()
\* finds it when it looks; when one of the three is missing (a pid file that
\* holds no pid gives no /proc/<pid>) it returns false; no step of it opens
\* a connection to the socket.
C17_RunningIffAllThree ==
    [][/\ (vm_pc = "r_sock" /\ vm_pc' # vm_pc) =>
              IF monitor_sock THEN ~RunningEnds ELSE RunningGave(FALSE)
       /\ (vm_pc = "r_pid" /\ vm_pc' # vm_pc) =>
              IF pid_exists THEN ~RunningEnds ELSE RunningGave(FALSE)
       /\ (vm_pc = "r_read" /\ vm_pc' # vm_pc) =>
              IF pid_exists /\ ParsePid(pid_text).ok
              THEN ~RunningEnds /\ pid_read' = ParsePid(pid_text).pid
              ELSE RunningGave(FALSE)
       /\ (vm_pc = "r_proc" /\ vm_pc' # vm_pc) =>
              RunningGave(ProcExists(pid_read))
       /\ InRunning => UNCHANGED connVars]_vars

\* the state the claim fails in: running() has found the socket and the pid
\* file, and the file is the empty one that Process::run has created and not
\* yet written
C17_EmptyPidFileRead ==
    vm_pc = "r_read" /\ monitor_sock /\ pid_exists /\ pid_text = <<>>

\* ------------------------------------------------------------------ C18
\* the step is one of the caller
CallerStep == vm_pc' # vm_pc

\* the caller is between the call of its operation and the operation's return
InOp(op) == vm_op = op /\ vm_pc # "idle"

\* launch has forked: one more child, at the start of Process::run
Launched ==
    /\ nstarts' = nstarts + 1
    /\ child' = [child EXCEPT ![nstarts + 1] = "forked"]
    /\ vm_ret' = VmRet("ok", "")

\* C18: start on a VM for which running() is true returns the error
\* "VM already started", and from its call to its return start launches no
\* process and writes no file; on a VM for which running() is false it calls
\* launch of the Process Supervisor, which forks the child that runs the
\* hypervisor (or panics when the fork fails).
C18_StartOnlyWhenNotRunning ==
    [][(InOp("start") /\ CallerStep) =>
          IF vm_pc = "checked" /\ ~run_ret
          THEN /\ UNCHANGED fsVars
               /\ \/ Launched
                  \/ vm_ret' = VmRet("panic", "Fork failed") /\ UNCHANGED procVars
          ELSE /\ UNCHANGED <<fsVars, procVars>>
               /\ (vm_pc = "checked") => vm_ret' = VmRet("err", "VM already started")]_vars

\* a start has launched a hypervisor, its pid is in the pid file and its
\* socket is bound, and a further start has been refused
C18_Witness ==
    /\ vm_op = "start"
    /\ vm_pc = "idle"
    /\ vm_ret = VmRet("err", "VM already started")
    /\ nstarts = 1
    /\ qemu[1] = "listening"

\* ------------------------------------------------------------------ C19
\* C19: stop, cont, status and destroy, on a VM for which running() is false,
\* return the error "VM not started" and open no connection; when running()
\* is true each opens a new connection, and the commands it writes on it
\* after connect's negotiation are its own command and nothing else: once
\* when connect gave a Monitor, none when connect failed.
C19_MonitorOnlyWhenRunning ==
    [][(vm_op \in MonitorOps /\ vm_pc # "idle" /\ CallerStep) =>
          /\ InRunning => UNCHANGED connVars
          /\ (vm_pc = "checked" /\ ~run_ret) =>
                 /\ vm_pc' = "idle"
                 /\ vm_ret' = VmRet("err", "VM not started")
                 /\ UNCHANGED connVars
          /\ (vm_pc = "checked" /\ run_ret) =>
                 /\ conns' = conns + 1
                 /\ conn_sent' = <<>>
                 /\ vm_pc' = "connected" \/ (vm_pc' = "idle" /\ vm_ret'.kind = "err")
          /\ (vm_pc = "connected") =>
                 /\ conn_sent = <<>>
                 /\ conn_sent' = <<CommandOf(vm_op)>>
                 /\ conns' = conns
                 /\ vm_pc' = "idle"]_vars

\* a destroy has sent quit on its own connection, and the status that
\* followed has been refused without a connection
C19_Witness ==
    /\ vm_op = "status"
    /\ vm_pc = "idle"
    /\ vm_ret = VmRet("err", "VM not started")
    /\ conns = 1
    /\ conn_sent = <<"quit">>

\* ------------------------------------------------------------------ C20
\* C20: an undefine whose running() is true does not go on to the removal
\* but into destroy; the removal is entered only from a running() that was
\* false or from a quit that this undefine has just sent on its connection
\* and that the hypervisor answered with a return; the directory goes away
\* in no other step than the removal; and when undefine has returned success
\* the directory does not exist and VMSet::get fails.
C20_QuitBeforeRemoval ==
    [][/\ (InOp("undefine") /\ CallerStep /\ vm_pc = "checked" /\ vm_in = "" /\ run_ret) =>
              vm_pc' # "remove" /\ vm_in' = "destroy"
       /\ (vm_pc # "remove" /\ vm_pc' = "remove") =>
              \/ vm_pc = "checked" /\ vm_in = "" /\ ~run_ret
              \/ /\ vm_pc = "connected"
                 /\ vm_in = "destroy"
                 /\ conn_sent = <<>>
                 /\ conn_sent' = <<"quit">>
                 /\ qemu'[conn_to] = "quitting"
       /\ (vm_dir /\ ~vm_dir') => vm_pc = "remove"
       /\ (vm_op' = "undefine" /\ vm_pc' = "idle" /\ vm_ret'.kind = "ok") =>
              ~vm_dir' /\ ~GetOk']_vars

\* undefine of a running VM has returned success: quit went out on its
\* connection and the directory is gone
C20_Witness ==
    /\ vm_op = "undefine"
    /\ vm_pc = "idle"
    /\ vm_ret = VmRet("ok", "")
    /\ vm_in = "destroy"
    /\ conn_sent = <<"quit">>
    /\ ~vm_dir

\* ------------------------------------------------------------------ C24
\* the step is the body of a remove_reservation of process p for a hostname
\* that no record of the saved table carries
RemovesAbsent(p) ==
    /\ pc[p] = "body"
    /\ pc'[p] = "release_pid"
    /\ call'[p].op = "remove_reservation"
    /\ FindHostname(netstate_file.reservations, call'[p].hostname) = 0

\* C24: remove_reservation(h) on a table with no record of hostname h leaves
\* the saved table as it is and only warns, and the call then returns Ok(()).
C24_AbsentHostnameIsSuccess ==
    [][\A p \in Procs :
          /\ RemovesAbsent(p) =>
                 /\ UNCHANGED fileVars
                 /\ ret'[p].outcome = "warn_none"
          /\ (ret[p].outcome = "warn_none" /\ pc[p] # "idle" /\ pc'[p] = "idle") =>
                 ret'[p].outcome = "ok"]_vars

\* a remove_reservation has found no record of its hostname in a table that
\* holds records of another
C24_Witness ==
    \E p \in Procs :
        /\ pc[p] = "release_pid"
        /\ call[p].op = "remove_reservation"
        /\ ret[p].outcome = "warn_none"
        /\ netstate_exists
        /\ netstate_file.reservations # <<>>

\* ------------------------------------------------------------------ C25
\* process p is in a remove_reservation, at get_netstate_locked's look for
\* the table file, and the file is not there
RemoveWithoutTable(p) ==
    /\ pc[p] = "exists"
    /\ call[p].op = "remove_reservation"
    /\ ~netstate_exists

\* C25: a remove_reservation that finds no table file ends in the panic
\* "no netstate file found"; the step creates no table file and the call has
\* not touched the lock, so it leaves none behind.
C25_MissingTableIsFatal ==
    [][\A p \in Procs :
          (RemoveWithoutTable(p) /\ pc'[p] # pc[p]) =>
              /\ pc'[p] = "idle"
              /\ ret'[p].outcome = "panic_nofile"
              /\ UNCHANGED <<lockVars, fileVars>>]_vars

\* a remove_reservation is at the look for the table file, which does not
\* exist, while nobody holds the lock: its next step is the one above
C25_Witness ==
    \E p \in Procs :
        /\ RemoveWithoutTable(p)
        /\ ~lock_dir
        /\ ENABLED get_netstate_locked_exists(p)

\* ------------------------------------------------------------------ C23
\* C23: release removes the pid file and then, only after that has
\* succeeded, the directory; a removal that fails (the file or the directory
\* is not there, or the directory is not empty) ends the call in a panic
\* with nothing removed by that step; and a call that has held the guard
\* returns normally only in the step that removes the directory, after its
\* own removal of the pid file.
C23_ReleaseFailsLoudly ==
    [][\A p \in Procs :
          /\ (pc[p] = "release_pid" /\ pc'[p] # pc[p]) =>
                 IF lock_pid # 0
                 THEN lock_pid' = 0 /\ lock_dir' = lock_dir /\ pc'[p] = "release_dir"
                 ELSE /\ pc'[p] = "idle"
                      /\ ret'[p].outcome = "panic_lock"
                      /\ UNCHANGED lockVars
          /\ (pc[p] = "release_dir" /\ pc'[p] # pc[p]) =>
                 /\ pc'[p] = "idle"
                 /\ IF lock_dir /\ lock_pid = 0
                    THEN ~lock_dir' /\ ret'[p].outcome # "panic_lock"
                    ELSE ret'[p].outcome = "panic_lock" /\ UNCHANGED lockVars
          /\ (InGuard(p) /\ pc'[p] = "idle" /\ ret'[p].outcome # "panic_lock") =>
                 pc[p] = "release_dir" /\ lock_dir /\ ~lock_dir']_vars

\* a release is half done: its pid file is removed and the directory has
\* gone by other hands, so that its remove_dir is about to fail
C23_Witness ==
    \E p \in Procs :
        /\ pc[p] = "release_dir"
        /\ ~lock_dir
        /\ ENABLED release_remove_dir(p)

\* ------------------------------------------------------------- C26, C27
\* the digits the argument begins with, and what follows them
RECURSIVE DigitRun(_)
DigitRun(s) ==
    IF s # <<>> /\ Head(s) \in Digits THEN <<Head(s)>> \o DigitRun(Tail(s)) ELSE <<>>

SuffixOf(s) == SubSeq(s, Len(DigitRun(s)) + 1, Len(s))

\* the exponent a suffix of the grammar stands for: k 1, m 2, g 3, t 4
PowerOf(ch) ==
    CASE ch \in {"k", "K"} -> 1
      [] ch \in {"m", "M"} -> 2
      [] ch \in {"g", "G"} -> 3
      [] ch \in {"t", "T"} -> 4

UnitChars == {"k", "K", "m", "M", "g", "G", "t", "T"}

\* the suffix is one of the grammar: a unit, or a unit followed by i
Recognized(suf) ==
    \/ Len(suf) = 1 /\ suf[1] \in UnitChars
    \/ Len(suf) = 2 /\ suf[1] \in UnitChars /\ suf[2] = "i"

\* n * 1000^p, or n * 1024^p with the binary modifier
Expected(s) ==
    LET suf == SuffixOf(s) IN
    MulPow(Decimal(DigitRun(s), <<>>), IF Len(suf) = 2 THEN 1024 ELSE 1000, PowerOf(suf[1]))

\* the call is one of a decimal number followed by a suffix of the grammar
SizedInput == DigitRun(size_s) # <<>> /\ Recognized(SuffixOf(size_s))

\* C26: for a decimal number n followed by k, m, g or t (either case),
\* to_size returns n * 1000^p with p = 1, 2, 3, 4, and with the modifier i
\* it returns n * 1024^p (stated for the n whose product fits a u64).
C26_SuffixScalesByPower ==
    (size_done /\ SizedInput /\ FitsU64(Expected(size_s))) =>
        size_ret = SizeRet("ok", Expected(size_s))

\* what the code does give: the value the claim names for k, m and g, and
\* the value of g for t, whenever the product fits a u64
C26_TeraScalesAsGiga ==
    (size_done /\ SizedInput /\ size_ret.kind = "ok" /\ size_checks) =>
        LET suf == SuffixOf(size_s)
            p == IF suf[1] \in {"t", "T"} THEN 3 ELSE PowerOf(suf[1])
        IN  size_ret.val = MulPow(Decimal(DigitRun(size_s), <<>>),
                                  IF Len(suf) = 2 THEN 1024 ELSE 1000, p)

\* to_size("12Ti") has returned 12 * 1024^3
C26_Witness ==
    /\ size_done
    /\ size_s = <<"1", "2", "T", "i">>
    /\ size_ret = SizeRet("ok", MulPow(<<12>>, 1024, 3))

\* C27: for every input, a number followed by a suffix that is not k, m, g
\* or t (either case, optionally followed by i), to_size returns a parse
\* error and no number.
C27_UnknownSuffixIsError ==
    (size_done /\ DigitRun(size_s) # <<>> /\ ~Recognized(SuffixOf(size_s))) =>
        size_ret.kind = "err"

\* to_size("12x") has returned the number 12
C27_Witness ==
    /\ size_done
    /\ size_s = <<"1", "2", "x">>
    /\ size_ret = SizeRet("ok", <<12>>)

\* ------------------------------------------------------------------ C28
\* how many of the first k messages the server sent are replies; the j-th
\* reply is the one the server produced for the j-th command written
RepliesUpTo(k) == Cardinality({i \in 1..k : IsReplyMessage(sent[i])})

\* C28: a command is written only when no drain is under way, and the reply
\* handed to the caller of a command (or of connect's negotiation) is the
\* reply the server produced for that command, whatever the commands before
\* it on the connection came to.
C28_ReplyIsOfItsCommand ==
    [][/\ (written' # written) => mon_pc \in {"caps", "ready"}
       /\ (Replied /\ result.kind \in {"return", "error"})' =>
              RepliesUpTo(result.src)' = Len(written')]_vars

\* a command has been handed the reply the server produced for the command
\* before it, whose drain had ended on an event that does not decode
C28_StaleReplyTaken ==
    /\ Replied
    /\ result.kind \in {"return", "error"}
    /\ RepliesUpTo(result.src) = Len(written) - 1

\* ------------------------------------------------------------------ C29
\* the bytes of a sequence of messages on the stream
RECURSIVE Wire(_)
Wire(members) ==
    IF members = <<>> THEN <<>> ELSE Message(Head(members)) \o Wire(Tail(members))

\* the step is the turn of a drain that returns a reply
DrainReturnsReply ==
    /\ mon_pc = "drain"
    /\ mon_pc' \in {"ready", "failed"}
    /\ result'.kind \in {"return", "error"}

\* C29: when the drain returns a reply, the messages the server has sent
\* after that reply are all still on the stream, for the drain of the next
\* command to read.
C29_NothingLostAfterReply ==
    [][DrainReturnsReply =>
          stream_in' = Wire(SubSeq(sent, result'.src + 1, Len(sent)))]_vars

\* a drain has returned a reply, and the event the server sent after it is
\* neither on the stream nor surfaced
C29_EventDropped ==
    /\ Replied
    /\ result.kind \in {"return", "error"}
    /\ result.src < Len(sent)
    /\ sent[result.src + 1] = "E"
    /\ stream_in = <<>>
    /\ logged = <<>>

\* ------------------------------------------------------------------ C30
\* the hypervisors start has launched that are processes of the host
HypervisorsAlive == {k \in Pids : Alive(k)}

\* an earlier start returned Ok and what it launched is still under way: its
\* child has not left Process::run or its hypervisor is a process
UnderWay(k) == child[k] \in {"forked", "spawned", "created"} \/ Alive(k)

\* C30: for one VM at most one hypervisor launched by start is alive at any
\* time, and a start that is made while the launch of an earlier start is
\* under way (its socket not yet bound or its pid file not yet written)
\* launches nothing.
C30_AtMostOneHypervisor ==
    [][/\ Cardinality(HypervisorsAlive') <= 1
       /\ (InOp("start") /\ CallerStep /\ \E k \in Pids : UnderWay(k))
             => UNCHANGED procVars]_vars

\* two starts have returned Ok and the hypervisors of both are alive, the
\* first having bound the socket after the second start looked for it
C30_TwoHypervisors ==
    /\ nstarts = 2
    /\ Alive(1)
    /\ Alive(2)
    /\ vm_op = "start"
    /\ vm_ret = VmRet("ok", "")

\* ------------------------------------------------------------------ C22
\* the open of the tap device gave -1 in the child of launch k
TapFailed(k) == tap[k] = "failed"

\* cmd.spawn() gave Err in the child of launch k
ExecFailed(k) == child[k] = "failed" /\ tap[k] # "none" /\ qemu[k] = "none"

\* launch panics on fork's Err
ForkFailed == vm_op = "start" /\ vm_ret = VmRet("panic", "Fork failed")

\* the pid file that the child of launch k created is in the directory
PidFileOf(k) == pid_exists /\ child[k] \in {"created", "exited"}

\* the caller of the start that made launch k has its return value in hand
HoldsReturnOf(k) == vm_op = "start" /\ vm_pc = "idle" /\ nstarts = k

\* C22: a start in which the open of the tap device, the fork or the exec of
\* the hypervisor fails is aborted: its caller sees a failure, no hypervisor
\* of that start is running and no pid file of it is in the runtime
\* directory.
C22_FailedLaunchAborts ==
    [][/\ (ForkFailed' /\ CallerStep) => UNCHANGED <<fsVars, procVars>>
       /\ \A k \in Pids :
            (TapFailed(k)' \/ ExecFailed(k)') =>
               /\ ~Alive(k)'
               /\ ~PidFileOf(k)'
               /\ HoldsReturnOf(k)' => vm_ret'.kind \in {"err", "panic"}]_vars

\* the tap device could not be opened, start has returned Ok(()) all the
\* same, the hypervisor was spawned with fd=-1 and the pid file written
C22_TapFailureUnseen ==
    /\ TapFailed(1)
    /\ HoldsReturnOf(1)
    /\ vm_ret = VmRet("ok", "")
    /\ Alive(1)
    /\ PidFileOf(1)
    /\ pid_text = PidText(1)

\* the exec failed in the child after start had returned Ok(()): no
\* hypervisor, no pid file, qemu.log left in the directory
C22_ExecFailureUnseen ==
    /\ ExecFailed(1)
    /\ HoldsReturnOf(1)
    /\ vm_ret = VmRet("ok", "")
    /\ qemu_log
    /\ ~pid_exists

\* ------------------------------------------------------------------ C21
\* the caller has the return of the i-th operation of EndToEnd in hand
After(i) == vm_pc = "idle" /\ nops = i

\* C21: for one VM and a hypervisor that answers commands, define, start,
\* status, stop, status, destroy, running, undefine succeed one after the
\* other: the first status returns the running state, the status after stop
\* the stopped state, running() after destroy is false, and after undefine
\* the runtime directory is gone.
C21_EndToEndSucceeds ==
    /\ After(1) => vm_ret = VmRet("ok", "") /\ vm_dir /\ spec_json
    /\ After(2) => vm_ret = VmRet("ok", "")
    /\ After(3) => vm_ret = VmRet("ok", "running")
    /\ After(4) => vm_ret = VmRet("ok", "")
    /\ After(5) => vm_ret = VmRet("ok", "paused")
    /\ After(6) => vm_ret = VmRet("ok", "")
    /\ After(7) => vm_ret = VmRet("bool", "false")
    /\ After(8) => vm_ret = VmRet("ok", "") /\ ~vm_dir

\* all eight operations have succeeded: each was made after what the one
\* before it had set going was done
C21_AllSucceed ==
    /\ After(8)
    /\ vm_op = "undefine"
    /\ vm_ret = VmRet("ok", "")
    /\ ~vm_dir
    /\ qemu[1] = "gone"
    /\ nstarts = 1

\* status made right after start finds no socket yet
C21_StatusBeforeSocket ==
    /\ After(3)
    /\ vm_ret = VmRet("err", "VM not started")
    /\ UnderWay(1)

\* running() made right after destroy finds the hypervisor still a process
C21_RunningAfterDestroy ==
    /\ After(7)
    /\ vm_ret = VmRet("bool", "true")
    /\ qemu[1] = "quitting"

\* ------------------------------------------------------------------ C34
\* C34: in every table that any sequence of new_reservation,
\* remove_reservation, add_lease and del_lease calls leaves on disk, no two
\* records carry the same IP.
C34_NoTwoRecordsSameIp ==
    \A i \in 1..Len(netstate_file.reservations) :
        \A j \in 1..Len(netstate_file.reservations) :
            i # j => netstate_file.reservations[i].ip
                        # netstate_file.reservations[j].ip

\* an add_lease has just marked the record of an address that a reservation
\* had been given, next to a record that another add_lease synthesized
C34_Witness ==
    \E p \in Procs :
        /\ pc[p] = "release_pid" /\ call[p].op = "add_lease"
        /\ ret[p].outcome = "leased"
        /\ Len(netstate_file.reservations) >= 2
        /\ \E i \in 1..Len(netstate_file.reservations) :
              /\ netstate_file.reservations[i].ip = call[p].addr
              /\ netstate_file.reservations[i].allocated
        /\ \E i \in 1..Len(netstate_file.reservations) :
              /\ ~netstate_file.reservations[i].allocated
              /\ netstate_file.reservations[i].leased

\* ------------------------------------------------------------------ C35
\* no process is inside new_reservation, remove_reservation, add_lease or
\* del_lease
NoOperation == \A p \in Procs : pc[p] = "idle"

\* C35: whenever no allocator operation is in progress the lock directory
\* does not exist: each operation releases the lock when it returns, and
\* also when it panics while it holds it (no free address, a table it cannot
\* read), and the lock directory exists only while some process has it.
C35_NoLockLeftBehind ==
    /\ NoOperation => (~lock_dir /\ lock_pid = 0)
    /\ lock_dir => \E p \in Procs : HasLock(p)

\* a call has panicked on a record whose ip it cannot parse, another has
\* panicked finding no free address or has returned, and the lock is free
C35_Witness ==
    /\ NoOperation
    /\ ~lock_dir
    /\ \E p \in Procs : ret[p].outcome = "panic_parse"
    /\ \E p \in Procs : ret[p].outcome \in {"panic_nofree", "ok"}

\* ------------------------------------------------------------------ C38
\* the eligible addresses that no record of the table res carries
FreeAddrs(res) ==
    {a \in EligibleAddrs : \A i \in 1..Len(res) : res[i].ip # a}

\* C38: for a hostname that has no record, new_reservation returns the
\* lowest host address of the CIDR, the skipped ones left out, that no record
\* carries: so an address that a purge has freed is handed out again before
\* any higher free address.
C38_LowestFreeAddress ==
    [][\A p \in Procs :
        (/\ BodyStep(p)
         /\ call'[p].op = "new_reservation"
         /\ FindHostname(netstate_file.reservations, call'[p].hostname) = 0
         /\ GotReservation(p)') =>
            /\ ret'[p].info.ip \in FreeAddrs(netstate_file.reservations)
            /\ \A a \in FreeAddrs(netstate_file.reservations) :
                  ret'[p].info.ip <= a]_vars

\* the lowest eligible address has been purged and handed out again: its
\* record now comes after the record of a higher address
C38_Witness ==
    \E p \in Procs :
        /\ pc[p] = "release_pid" /\ ret[p].outcome = "created"
        /\ ret[p].info.ip = GatewayOctet + 1
        /\ Len(netstate_file.reservations) = 2
        /\ netstate_file.reservations[1].ip = GatewayOctet + 2
        /\ netstate_file.reservations[2] = ret[p].info

\* ------------------------------------------------------------------ C39
\* C39: when a record with hostname h is in the table as new_reservation(h)
\* runs, be it one that a removed reservation left behind because it was
\* still leased or one that add_lease synthesized, the call adds no record,
\* sets the allocated flag of that record (the first with the hostname) and
\* returns its IP and MAC as they are.
C39_ExistingRecordAdopted ==
    [][\A p \in Procs :
        (/\ BodyStep(p)
         /\ call'[p].op = "new_reservation"
         /\ FindHostname(netstate_file.reservations, call'[p].hostname) # 0) =>
            LET res == netstate_file.reservations
                i == FindHostname(res, call'[p].hostname)
            IN  /\ ret'[p].outcome = "existing"
                /\ ret'[p].info = [res[i] EXCEPT !.allocated = TRUE]
                /\ netstate_file'.reservations = [res EXCEPT ![i] = ret'[p].info]
                /\ netstate_file'.cidr = netstate_file.cidr]_vars

\* a record that add_lease synthesized for the gateway's address, which no
\* reservation is ever allocated, has been returned as a reservation
C39_Witness ==
    \E p \in Procs :
        /\ pc[p] = "release_pid" /\ call[p].op = "new_reservation"
        /\ ret[p].outcome = "existing"
        /\ ret[p].info.ip = GatewayOctet
        /\ ret[p].info.allocated /\ ret[p].info.leased
        /\ ret[p].info \in {netstate_file.reservations[i] :
                                i \in 1..Len(netstate_file.reservations)}

\* ------------------------------------------------------------------ C40
\* C40: add_lease(mac, ip, hostname) for an IP that a record carries sets
\* that record's leased flag and changes nothing else: its mac, ip, hostname
\* and allocated stay, also when the lease's mac or hostname is another, and
\* no other record is changed, added or removed.
C40_LeaseOnlyFlags ==
    [][\A p \in Procs :
        (/\ BodyStep(p)
         /\ call'[p].op = "add_lease"
         /\ FindIp(netstate_file.reservations, call'[p].addr) # 0) =>
            LET res == netstate_file.reservations
                i == FindIp(res, call'[p].addr)
            IN  /\ netstate_file'.reservations =
                      [res EXCEPT ![i] = [res[i] EXCEPT !.leased = TRUE]]
                /\ netstate_file'.cidr = netstate_file.cidr]_vars

\* a lease with another mac and another hostname has been recorded on an
\* allocated record, which keeps its own, next to a second record
C40_Witness ==
    \E p \in Procs :
        /\ pc[p] = "release_pid" /\ call[p].op = "add_lease"
        /\ ret[p].outcome = "leased"
        /\ call[p].hostname \in Hostnames
        /\ Len(netstate_file.reservations) = 2
        /\ \E i \in 1..Len(netstate_file.reservations) :
              /\ netstate_file.reservations[i].ip = call[p].addr
              /\ netstate_file.reservations[i].mac # call[p].mac
              /\ netstate_file.reservations[i].hostname # call[p].hostname
              /\ netstate_file.reservations[i].allocated
              /\ netstate_file.reservations[i].leased

\* ------------------------------------------------------------------ C36
\* a process that had the lock has died without releasing it
DeadHolder == \E p \in Procs : pc[p] = "dead"

\* C36: once a process that holds the lock has died without running release,
\* the lock directory stays and no acquire on the path ever returns: every
\* process that is in acquire, or enters it later, stays in its loop.
C36_StaleLockBlocksForever ==
    [][DeadHolder =>
          /\ lock_dir /\ lock_dir'
          /\ \A q \in Procs : pc'[q] = "write_pid" => pc[q] = "write_pid"
          /\ \A q \in Procs : pc[q] = "acquire" => pc'[q] = "acquire"]_vars

\* the holder died after it had written its pid, and a process that called
\* afterwards is in acquire's loop
C36_Witness ==
    \E p \in Procs, q \in Procs :
        /\ pc[p] = "dead" /\ lock_pid = p /\ lock_dir
        /\ pc[q] = "acquire"
        /\ p \in conc[q] /\ calls >= 2

\* ------------------------------------------------------------------ C37
\* some process is in acquire's loop
Waiting == \E p \in Procs : pc[p] = "acquire"

\* C37: if every holder releases the lock and none dies, then under fair
\* scheduling, whenever a process waits in acquire, the lock becomes free
\* and one of the waiting processes gets it.
C37_SomeWaiterGetsLock ==
    /\ (Waiting /\ lock_dir) ~> ~lock_dir
    /\ (Waiting /\ ~lock_dir) ~> (\E q \in Procs : pc[q] = "write_pid")

\* no particular waiter is sure to get it: this does not hold
C37_EveryWaiterGetsLock ==
    \A p \in Procs : (pc[p] = "acquire") ~> (pc[p] = "write_pid")

\* a process whose call overlapped the holder's has got the lock after the
\* holder released it and returned
C37_Witness ==
    \E p \in Procs, q \in Procs :
        /\ p # q /\ q \in conc[p]
        /\ pc[p] = "write_pid"
        /\ pc[q] = "idle" /\ ret[q].outcome = "ok"

\* ------------------------------------------------------------------ C31
\* undefine has returned Ok(()) to the caller, who has made nothing since
UndefineReturnedOk ==
    vm_op = "undefine" /\ vm_pc = "idle" /\ vm_ret = VmRet("ok", "")

\* C31: after undefine has returned success no hypervisor that start
\* launched for the VM is alive, one that had not yet bound its socket or
\* whose pid file was not yet written when undefine ran included.
C31_NoHypervisorAfterUndefine ==
    UndefineReturnedOk => HypervisorsAlive = {}

\* the hypervisor listens, its pid file was not written when undefine looked:
\* undefine sent no quit, removed the directory and returned Ok(()), and the
\* hypervisor is a process still
C31_OrphanHypervisor ==
    /\ UndefineReturnedOk
    /\ ~vm_dir
    /\ conns = 0
    /\ vm_in = ""
    /\ nstarts = 1
    /\ qemu[1] = "listening"

\* ------------------------------------------------------------------ C32
\* the server has closed the connection with a command of the client
\* unanswered
ClosedUnanswered == srv = "closed" /\ Len(replied) < Len(written)

\* C32: when the server closes the connection after a command was written
\* and before it sent a return or an error for it, the drain ends and the
\* command fails; the loop does not go on forever on the closed socket.
\* Once the socket holds nothing more, only the client can take a step, and
\* a turn of the loop that left it in the drain would be followed by the
\* same turn for ever: so every such turn is to end the drain with a failure.
C32_ClosedSocketEndsDrain ==
    [][(mon_pc = "drain" /\ ClosedUnanswered /\ stream_in = <<>>) =>
           (mon_pc' # "drain" /\ result'.kind = "fail")]_vars

\* the server took the command and closed without a reply, the socket holds
\* nothing, and the loop has gone round MaxSpins times on reads of 0 bytes
\* and is still going
C32_SpinsOnClosedSocket ==
    /\ mon_pc = "drain"
    /\ ClosedUnanswered
    /\ stream_in = <<>>
    /\ stream_out = <<>>
    /\ spins = MaxSpins
    /\ ENABLED read_response

\* ------------------------------------------------------------------ C33
\* C33: a message that arrives split across two reads (or that does not fit
\* the read buffer) is still decoded as one message: the client does not
\* crash on a partial message, and a command whose messages are events
\* followed by a return or an error gets that reply wherever the reads ended.
C33_ReadBoundariesDoNotMatter ==
    /\ mon_pc # "panicked"
    /\ \A j \in 1..Len(sent) :
        (Replied /\ EventsThenReply(j)) =>
            (result.src = j /\ result.val = sent[j])

\* the server sent whole messages and has answered every command; a read
\* filled the buffer and ended inside a message, and the client panicked
C33_PanicOnPartialMessage ==
    /\ mon_pc = "panicked"
    /\ cut
    /\ taken % Len(Message("E")) \in {1, 2}
    /\ Len(replied) = Len(written)
    /\ \A i \in 1..Len(sent) : sent[i] \in {"G", "E", "R"}

====
